---------------------------- MODULE Spec2Model ----------------------------
(***************************************************************************)
(* Model of the message-transport core of the pellegrino kernel:           *)
(*   - Accumulator::feed, the sentinel framer (usb_serial.rs);             *)
(*   - UsbUartSys, the port multiplexer, and UsbUartIsr::poll, over two    *)
(*     bbqueue ring channels (usb_serial.rs);                              *)
(*   - raw_syscall, the claim/publish/trap/reset handshake (syscall/mod.rs)*)
(* Ten specifications share the module: SpecAcc drives the Accumulator     *)
(* alone, SpecSys drives the syscall slot with two callers, Spec drives    *)
(* the multiplexer with the ISR and the host, SpecFair adds weak fairness  *)
(* of the cooperative steps to it, SpecLoaded starts it from queues that   *)
(* earlier frames have filled, SpecBoot drives setup_usb_uart, SpecReg     *)
(* drives the port registry alone, SpecEnc drives the loop of send over    *)
(* payload and grant lengths, SpecEgress drives send against the outbound  *)
(* half of poll with a serial port that accepts none, some or all bytes,   *)
(* SpecIngress drives process against poll on an inbound channel larger    *)
(* than one request of poll.                                               *)
(***************************************************************************)
EXTENDS Integers, Sequences, FiniteSets, TLC

VARIABLES
    \* ---- Accumulator driven alone (SpecAcc)
    tStream,    \* the byte stream chosen at the start
    tLeft,      \* bytes of tStream not yet handed to feed
    tWin,       \* remainder returned by the last feed, still to be re-fed
    tAcc,       \* the Accumulator: [buf, idx]
    tFrames,    \* frames decoded so far, in order
    tFault,     \* TRUE once a feed has faulted (slice index out of range)
    tLast,      \* the last feed call: [pre, window, res], or NoCall
    \* ---- the syscall slot and its callers (SpecSys)
    sInPtr,     \* SYSCALL_IN_PTR
    sInLen,     \* SYSCALL_IN_LEN
    sOutPtr,    \* SYSCALL_OUT_PTR
    sOutLen,    \* SYSCALL_OUT_LEN
    sPc,        \* per caller: where it stands in raw_syscall
    sReq,       \* per caller: input.len() of the call in progress (0 outside a call)
    sNew,       \* per caller: new_out_len (0 outside a call)
    sRes,       \* per caller: what its last call returned
    sRaced,     \* TRUE once a claim succeeded between another call's trap and reset
    \* ---- the port multiplexer, the ISR and the host (Spec, SpecReg)
    inc,        \* UART_INC, the inbound ring channel (ISR produces, UsbUartSys consumes)
    out,        \* UART_OUT, the outbound ring channel (UsbUartSys produces, ISR consumes)
    acc,        \* UsbUartSys.acc
    ports,      \* UsbUartSys.ports: registered id -> queue of chunks
    pc,         \* where the cooperative context stands
    call,       \* the call in progress: [op, port, len]
    window,     \* process: the part of the read grant not yet consumed
    snd,        \* the send in progress or last returned: [port, src, rem, done, res, nested]
    rxq,        \* packets the host has written that the ISR has not read yet
    ret,        \* what the last call returned: [op, port, res, bytes]
    gIn,        \* per id: the chunks pushed since the id was registered, concatenated
    gOut,       \* per id: the bytes recv returned since the id was registered
    ops,        \* calls the cooperative context may still make
    hostLeft,   \* frames the host may still write
    hostLog,    \* the frames the host has written, in order
    \* ---- construction of the driver (SpecBoot)
    split,      \* per ring channel: whether its handles have been taken
    setups,     \* what the calls of setup_usb_uart returned, in order
    \* ---- the loop of send over lengths (SpecEnc)
    eRemaining, \* remaining.len()
    eGrant,     \* wgr.len() of the last reservation, 0 for Err(InsufficientSize)
    eRes,       \* "none", "run", or what send did: "ok", "err", "panic"
    \* ---- the serial port observed (SpecEgress)
    txLog       \* the bytes the serial port has accepted from poll, in order

accVars == <<tStream, tLeft, tWin, tAcc, tFrames, tFault, tLast>>
sysVars == <<sInPtr, sInLen, sOutPtr, sOutLen, sPc, sReq, sNew, sRes, sRaced>>

muxVars == <<inc, out, acc, ports, pc, call, window, snd, rxq, ret, gIn, gOut, ops, hostLeft,
            hostLog>>

bootVars == <<split, setups>>

encVars == <<eRemaining, eGrant, eRes>>

txVars == <<txLog>>

vars == <<accVars, sysVars, muxVars, bootVars, encVars, txVars>>

\* what the actions of one specification leave alone
notAcc == <<sysVars, muxVars, bootVars, encVars, txVars>>
notSys == <<accVars, muxVars, bootVars, encVars, txVars>>
notMux == <<accVars, sysVars, bootVars, encVars, txVars>>
notEnc == <<accVars, sysVars, muxVars, bootVars, txVars>>
notTx == <<accVars, sysVars, bootVars, encVars>>

-----------------------------------------------------------------------------
(* Bounds of the model *)

\* largest byte value; bytes are 0..MaxByte and 0 is the sentinel
MaxByte == 2
\* the capacity N of the Accumulator driven alone in SpecAcc
AccN == 4
\* longest stream fed to the Accumulator in SpecAcc
MaxStream == 6
\* longest serialized request, and longest response the handler writes
MaxReq == 1
\* capacity of each ring channel (BBBuffer<USB_BUF_SZ>, 4096 in the driver)
RingCap == 8
\* capacity of UsbUartSys's Accumulator (Accumulator<1024> in the driver),
\* so much less than a ring channel's that one read reservation can hold a
\* frame that overflows it, as in the driver
UartAccN == 6
\* bytes the heap can hand out
HeapCap == 2
\* calls the cooperative context makes in Spec
MaxOps == 2
\* frames the host writes in Spec
MaxHost == 1
\* longest destination buffer handed to recv
MaxDest == 1
\* calls of setup_usb_uart in SpecBoot
MaxSetups == 3
\* longest buffer handed to send in SpecEnc
MaxRem == 253
\* longest write reservation send is granted in SpecEnc (at most USB_BUF_SZ)
MaxGrant == 257

Bytes == 0..MaxByte
NoCall == [kind |-> "nocall"]
NoOp == [op |-> "none", port |-> 0, len |-> 0]
NoRet == [op |-> "none", port |-> 0, res |-> "none", bytes |-> <<>>]
NoSend == [port |-> 0, src |-> <<>>, rem |-> <<>>, done |-> <<>>, res |-> "none", nested |-> FALSE]

-----------------------------------------------------------------------------
(* Sequences *)

\* all sequences over S of length at most n
SeqUpTo(S, n) == UNION {[1..k -> S] : k \in 0..n}

\* s[from..], 0-based like a Rust slice
SliceFrom(s, from) == SubSeq(s, from + 1, Len(s))

\* s[..to], 0-based like a Rust slice
SliceTo(s, to) == SubSeq(s, 1, to)

\* buf.iter().position(|b| *b == 0): 0-based offset of the first sentinel, -1 for None
Position(buf) ==
    IF \E i \in 1..Len(buf) : buf[i] = 0
    THEN (CHOOSE i \in 1..Len(buf) : buf[i] = 0 /\ \A j \in 1..(i - 1) : buf[j] # 0) - 1
    ELSE -1

\* CopyInto that writes at the start of dst whatever at is
CopyIntoFront(dst, at, src) ==
    [i \in 1..Len(dst) |-> IF i <= Len(src) THEN src[i] ELSE dst[i]]

\* dst[at..][..len(src)].copy_from_slice(src), 0-based at; the caller checks the bounds
CopyInto(dst, at, src) ==
    [i \in 1..Len(dst) |->
        IF i > at /\ i <= at + Len(src) THEN src[i - at] ELSE dst[i]]

-----------------------------------------------------------------------------
(* Accumulator<N> *)

\* Accumulator::<N>::new; N is the length of buf
AccNew(n) == [buf |-> [i \in 1..n |-> 0], idx |-> 0]

\* a feed outcome: kind is "frame" (Ok(Some)), "none" (Ok(None)), "withrem"
\* (Err(NoRoomWithRem)), "norem" (Err(NoRoomNoRem)) or "fault" (a panic)
FeedRes(kind, a, msg, rem) == [kind |-> kind, acc |-> a, msg |-> msg, rem |-> rem]

\* the arm `Some(n) if (self.idx + n) <= N`
FeedFound(a, buf, n) ==
    LET now == SliceTo(buf, n + 1)
        later == SliceFrom(buf, n + 1)
    IN  IF a.idx + Len(now) > Len(a.buf)
        THEN \* self.buf[self.idx..][..now.len()] is out of range: panic
             FeedRes("fault", a, <<>>, <<>>)
        ELSE LET nbuf == CopyInto(a.buf, a.idx, now)
                 len == a.idx + Len(now)
             IN  FeedRes("frame", [buf |-> nbuf, idx |-> 0], SliceTo(nbuf, len), later)

\* FeedNoRoom with the cursor left where it was
FeedNoRoomKeep(a, buf, n) ==
    IF n < Len(buf)
    THEN FeedRes("withrem", a, <<>>, SliceFrom(buf, n + 1))
    ELSE FeedRes("norem", a, <<>>, <<>>)

\* the arms `Some(n) if n < buf.len()` and `Some(_)`
FeedNoRoom(a, buf, n) ==
    IF n < Len(buf)
    THEN FeedRes("withrem", [a EXCEPT !.idx = 0], <<>>, SliceFrom(buf, n + 1))
    ELSE FeedRes("norem", [a EXCEPT !.idx = 0], <<>>, <<>>)

\* FeedNoSentinel without the test for room
FeedNoSentinelOver(a, buf) ==
    FeedRes("none",
            [buf |-> CopyInto(a.buf, a.idx, buf), idx |-> a.idx + Len(buf)],
            <<>>, <<>>)

\* FeedNoSentinel with the cursor left where it was
FeedNoSentinelStuck(a, buf) ==
    IF a.idx + Len(buf) <= Len(a.buf)
    THEN FeedRes("none", [buf |-> CopyInto(a.buf, a.idx, buf), idx |-> a.idx], <<>>, <<>>)
    ELSE FeedRes("norem", [a EXCEPT !.idx = 0], <<>>, <<>>)

\* the arms `None if (self.idx + buf.len()) <= N` and `None`
FeedNoSentinel(a, buf) ==
    IF a.idx + Len(buf) <= Len(a.buf)
    THEN FeedRes("none",
                 [buf |-> CopyInto(a.buf, a.idx, buf), idx |-> a.idx + Len(buf)],
                 <<>>, <<>>)
    ELSE FeedRes("norem", [a EXCEPT !.idx = 0], <<>>, <<>>)

\* Accumulator::feed
feed(a, buf) ==
    LET n == Position(buf)
    IN  IF n >= 0 /\ a.idx + n <= Len(a.buf) THEN FeedFound(a, buf, n)
        ELSE IF n >= 0 THEN FeedNoRoom(a, buf, n)
        ELSE FeedNoSentinel(a, buf)

-----------------------------------------------------------------------------
(* The frame codec (sportty over COBS): [port: 2 bytes LE][payload], byte-   *)
(* stuffed so that no 0 occurs, then the sentinel 0. Blocks are shorter than *)
(* 254 bytes in this model, so every block has one code byte.                *)

\* port.to_le_bytes()
PortBytes(port) == <<port % 256, port \div 256>>

\* u16::from_le_bytes
PortOf(lo, hi) == lo + 256 * hi

\* COBS stuffing of data: a code byte (block length + 1) before every block
RECURSIVE CobsEncode(_)
CobsEncode(data) ==
    LET n == Position(data)
    IN  IF n < 0 THEN <<Len(data) + 1>> \o data
        ELSE <<n + 1>> \o SliceTo(data, n) \o CobsEncode(SliceFrom(data, n + 1))

\* COBS unstuffing up to the sentinel or the end of enc; "err" when a code
\* byte announces more bytes than the frame holds
RECURSIVE CobsDecode(_)
CobsDecode(enc) ==
    IF enc = <<>> \/ enc[1] = 0 THEN [ok |-> TRUE, data |-> <<>>]
    ELSE LET code == enc[1]
             block == SubSeq(enc, 2, code)
             rest == SliceFrom(enc, code)
         IN  IF code > Len(enc) \/ Position(block) >= 0
             THEN [ok |-> FALSE, data |-> <<>>]
             ELSE IF rest = <<>> \/ rest[1] = 0 THEN [ok |-> TRUE, data |-> block]
             ELSE LET more == CobsDecode(rest)
                  IN  [ok |-> more.ok, data |-> block \o <<0>> \o more.data]

\* sportty::max_encoding_length(len): tag and payload, one overhead byte per
\* started block of 254, and the sentinel
max_encoding_length(len) == (len + 2) + ((len + 2 + 253) \div 254) + 1

\* Message { port, data }.encode_to(buf) for a buf of cap bytes
EncodeTo(port, data, cap) ==
    LET enc == CobsEncode(PortBytes(port) \o data) \o <<0>>
    IN  IF Len(enc) > cap THEN [ok |-> FALSE, used |-> <<>>]
        ELSE [ok |-> TRUE, used |-> enc]

\* Message::decode_in_place(frame)
DecodeInPlace(frame) ==
    LET d == CobsDecode(frame)
    IN  IF ~d.ok \/ Len(d.data) < 2 THEN [ok |-> FALSE, port |-> 0, data |-> <<>>]
        ELSE [ok |-> TRUE, port |-> PortOf(d.data[1], d.data[2]),
              data |-> SliceFrom(d.data, 2)]

-----------------------------------------------------------------------------
(* A ring channel (bbqueue BBBuffer<N> split into Producer and Consumer).    *)
(* r.buf is the backing array, r.write, r.read, r.last and r.reserve are the *)
(* shared positions, r.wip and r.rip the grant-in-progress flags; r.wstart   *)
(* and r.wlen describe the outstanding GrantW, r.rlen the outstanding GrantR.*)
(* Cells that hold no committed, unreleased byte are kept at 0.              *)

\* BBBuffer::new and try_split
RingNew(n) ==
    [buf |-> [i \in 1..n |-> 0], write |-> 0, read |-> 0, last |-> 0,
     reserve |-> 0, wip |-> FALSE, rip |-> FALSE, wstart |-> 0, wlen |-> 0, rlen |-> 0]

Min(a, b) == IF a <= b THEN a ELSE b

\* Producer::grant_max_remaining(sz): res is "ok", "insufficient" or "in_progress"
GrantMaxRemaining(r, sz) ==
    LET max == Len(r.buf)
        grant(start, len) ==
            [res |-> "ok",
             ring |-> [r EXCEPT !.reserve = start + len, !.wip = TRUE,
                                !.wstart = start, !.wlen = len]]
    IN  IF r.wip THEN [res |-> "in_progress", ring |-> r]
        ELSE IF r.write < r.read
        THEN IF r.read - r.write - 1 # 0
             THEN grant(r.write, Min(r.read - r.write - 1, sz))
             ELSE [res |-> "insufficient", ring |-> r]
        ELSE IF r.write # max
        THEN grant(r.write, Min(max - r.write, sz))
        ELSE IF r.read > 1
        THEN grant(0, Min(r.read - 1, sz))
        ELSE [res |-> "insufficient", ring |-> r]

\* GrantW::commit(used) after `bytes` were written at the start of the
\* grant; dropping a GrantW is commit(0)
Commit(r, bytes) ==
    LET max == Len(r.buf)
        used == Min(r.wlen, Len(bytes))
        newWrite == r.reserve - (r.wlen - used)
        newLast == IF newWrite < r.write /\ r.write # max THEN r.write
                   ELSE IF newWrite > r.last THEN max
                   ELSE r.last
    IN  IF ~r.wip THEN r
        ELSE [r EXCEPT !.buf = CopyInto(r.buf, r.wstart, SliceTo(bytes, used)),
                       !.reserve = newWrite, !.last = newLast, !.write = newWrite,
                       !.wip = FALSE, !.wstart = 0, !.wlen = 0]

\* Consumer::read(): res is "ok", "insufficient" or "in_progress"
Read(r) ==
    LET read == IF r.read = r.last /\ r.write < r.read THEN 0 ELSE r.read
        sz == (IF r.write < read THEN r.last ELSE r.write) - read
    IN  IF r.rip THEN [res |-> "in_progress", ring |-> r]
        ELSE IF sz = 0 THEN [res |-> "insufficient", ring |-> [r EXCEPT !.read = read]]
        ELSE [res |-> "ok", ring |-> [r EXCEPT !.read = read, !.rip = TRUE, !.rlen = sz]]

\* the bytes of the outstanding GrantR
Granted(r) == SubSeq(r.buf, r.read + 1, r.read + r.rlen)

\* GrantR::release(used); dropping a GrantR is release(0)
Release(r, used) ==
    LET n == Min(r.rlen, used)
    IN  IF ~r.rip THEN r
        ELSE [r EXCEPT !.buf = [i \in 1..Len(r.buf) |->
                                   IF i > r.read /\ i <= r.read + n THEN 0 ELSE r.buf[i]],
                       !.read = r.read + n, !.rip = FALSE, !.rlen = 0]

-----------------------------------------------------------------------------
(* The heap (crate::alloc::HEAP): HeapCap bytes, shared by all chunks.       *)

RECURSIVE SumLen(_)
SumLen(chunks) ==
    IF chunks = <<>> THEN 0 ELSE Len(chunks[1]) + SumLen(Tail(chunks))

\* the bytes held by the chunks of every port queue
HeapUsed(ps) ==
    LET RECURSIVE Sum(_)
        Sum(ids) == IF ids = {} THEN 0
                    ELSE LET id == CHOOSE x \in ids : TRUE
                         IN  SumLen(ps[id]) + Sum(ids \ {id})
    IN  Sum(DOMAIN ps)

\* hp.alloc_box_array(0u8, len) succeeds while `held` bytes are allocated
AllocOk(held, len) == held + len <= HeapCap

-----------------------------------------------------------------------------
(* The port registry: LinearMap<u16, Deque<HeapArray<u8>, 16>, 8>, a        *)
(* function from the registered ids to their queues of chunks.              *)

\* the capacity of the LinearMap
MaxPorts == 8
\* the capacity of each Deque
QueueCap == 16

\* the ids the registry is driven with in SpecReg: more than it can hold
AllIds == 0..(MaxPorts + 1)
\* the ids the calls and the host frames of Spec use
PortIds == {0, 1}

\* ports.insert(0, Deque::new()) in setup_usb_uart
PortsNew == [id \in {0} |-> <<>>]

\* the map with id bound to q
Insert(ps, id, q) == [x \in DOMAIN ps \cup {id} |-> IF x = id THEN q ELSE ps[x]]

\* the map without id
Remove(ps, id) == [x \in DOMAIN ps \ {id} |-> ps[x]]

\* register_port without the contains_key test: insert replaces the queue
RegisterPortAgain(ps, port) ==
    IF port \notin DOMAIN ps /\ Cardinality(DOMAIN ps) >= MaxPorts
    THEN [res |-> "err", ports |-> ps]
    ELSE [res |-> "ok", ports |-> Insert(ps, port, <<>>)]

\* register_port over a map that takes one entry more
RegisterPortOver(ps, port) ==
    IF port \in DOMAIN ps THEN [res |-> "err", ports |-> ps]
    ELSE IF Cardinality(DOMAIN ps) > MaxPorts THEN [res |-> "err", ports |-> ps]
    ELSE [res |-> "ok", ports |-> Insert(ps, port, <<>>)]

\* UsbUartSys::register_port
RegisterPort(ps, port) ==
    IF port \in DOMAIN ps THEN [res |-> "err", ports |-> ps]
    ELSE IF Cardinality(DOMAIN ps) >= MaxPorts THEN [res |-> "err", ports |-> ps]
    ELSE [res |-> "ok", ports |-> Insert(ps, port, <<>>)]

\* release_port without the test for port 0
ReleasePortAny(ps, port) ==
    IF port \in DOMAIN ps THEN [res |-> "ok", ports |-> Remove(ps, port)]
    ELSE [res |-> "err", ports |-> ps]

\* UsbUartSys::release_port
ReleasePort(ps, port) ==
    IF port = 0 THEN [res |-> "err", ports |-> ps]
    ELSE IF port \in DOMAIN ps THEN [res |-> "ok", ports |-> Remove(ps, port)]
    ELSE [res |-> "err", ports |-> ps]

\* the flattened bytes of a queue
RECURSIVE Flatten(_)
Flatten(chunks) ==
    IF chunks = <<>> THEN <<>> ELSE chunks[1] \o Flatten(Tail(chunks))

\* one pass of the loop of UsbUartSys::recv for a destination of buflen bytes,
\* `got` written so far, on queue deq, with `other` heap bytes held by the
\* other queues: kind is "return", "next" (the loop goes on) or "panic"
\* (defmt::unwrap!)
RecvPass(deq, buflen, got, other) ==
    IF Len(got) >= buflen THEN [kind |-> "return", bytes |-> got, deq |-> deq]
    ELSE IF deq = <<>> THEN [kind |-> "return", bytes |-> got, deq |-> deq]
    ELSE LET msg == Head(deq)
             rest == Tail(deq)
             avail == buflen - Len(got)
         IN  IF Len(msg) <= avail
             THEN [kind |-> "next", bytes |-> got \o msg, deq |-> rest]
             ELSE LET now == SliceTo(msg, avail)
                      later == SliceFrom(msg, avail)
                  IN  \* msg is still allocated while later is allocated
                      IF ~AllocOk(other + SumLen(rest) + Len(msg), Len(later))
                      THEN [kind |-> "panic", bytes |-> got \o now, deq |-> rest]
                      ELSE [kind |-> "next", bytes |-> got \o now,
                            deq |-> <<later>> \o rest]

\* the queue part of UsbUartSys::recv: res is "ok" with the bytes written, or
\* "panic"
RECURSIVE RecvLoop(_, _, _, _)
RecvLoop(deq, buflen, got, other) ==
    LET p == RecvPass(deq, buflen, got, other)
    IN  IF p.kind = "next" THEN RecvLoop(p.deq, buflen, p.bytes, other)
        ELSE [res |-> IF p.kind = "panic" THEN "panic" ELSE "ok",
              bytes |-> p.bytes, deq |-> p.deq]

\* BBBuffer::try_split on a buffer whose handles are taken (taken) or not
TrySplit(taken) == [ok |-> ~taken, taken |-> TRUE]

\* the one call of setup_usb_uart that built the driver has been made
BootDone ==
    /\ split = [inc |-> TRUE, out |-> TRUE]
    /\ setups = <<"ok">>

\* no send is followed over lengths, and the serial port has accepted nothing
EncIdle ==
    /\ eRemaining = 0
    /\ eGrant = 0
    /\ eRes = "none"
    /\ txLog = <<>>

\* the state of the multiplexer after setup_usb_uart, with budgets for the
\* calls and the host frames to come
MuxStart(nops, nhost) ==
    /\ BootDone
    /\ inc = RingNew(RingCap)
    /\ out = RingNew(RingCap)
    /\ acc = AccNew(UartAccN)
    /\ ports = PortsNew
    /\ pc = "idle"
    /\ call = NoOp
    /\ window = <<>>
    /\ snd = NoSend
    /\ rxq = <<>>
    /\ ret = NoRet
    /\ gIn = [id \in AllIds |-> <<>>]
    /\ gOut = [id \in AllIds |-> <<>>]
    /\ ops = nops
    /\ hostLeft = nhost
    /\ hostLog = <<>>

\* the Accumulator harness for one stream
AccStart(stream) ==
    /\ tStream = stream
    /\ tLeft = tStream
    /\ tWin = <<>>
    /\ tAcc = AccNew(AccN)
    /\ tFrames = <<>>
    /\ tFault = FALSE
    /\ tLast = NoCall

-----------------------------------------------------------------------------
(* The syscall slot: SYSCALL_IN_PTR, SYSCALL_IN_LEN, SYSCALL_OUT_PTR,       *)
(* SYSCALL_OUT_LEN, and raw_syscall run by two callers whose steps          *)
(* interleave. The trap runs the privileged handler to completion.          *)

Callers == {1, 2}

\* null_mut()
NullPtr == [buf |-> "null", of |-> 0]
\* input.as_ptr(): the caller's inp_buf
InBuf(c) == [buf |-> "inp_buf", of |-> c]
\* output.as_ptr(): the caller's out_buf
OutBuf(c) == [buf |-> "out_buf", of |-> c]
\* output.len(): out_buf is [0u8; 128]
OutCap == 128

\* the positions of raw_syscall between a successful claim and the trap
PreTrap == {"pubInLen", "pubOutPtr", "pubOutLen", "svc"}
\* the positions of raw_syscall between the trap and the end of the reset
PostTrap == {"take", "rstOutPtr", "rstInLen", "rstInPtr"}
Holding == PreTrap \cup PostTrap

\* the idle state of the slot: incoming pointer null and everything else zero
AllIdle == sInPtr = NullPtr /\ sInLen = 0 /\ sOutPtr = NullPtr /\ sOutLen = 0

\* syscall_clear() at start-up: the slot is idle and no call is in progress
SysStart ==
    /\ sInPtr = NullPtr /\ sInLen = 0 /\ sOutPtr = NullPtr /\ sOutLen = 0
    /\ sPc = [c \in Callers |-> "idle"]
    /\ sReq = [c \in Callers |-> 0]
    /\ sNew = [c \in Callers |-> 0]
    /\ sRes = [c \in Callers |-> "none"]
    /\ sRaced = FALSE

Goto(c, to) == sPc' = [sPc EXCEPT ![c] = to]

\* try_syscall: the request is serialized into inp_buf and raw_syscall entered
SysBegin(c) ==
    /\ sPc[c] = "idle"
    /\ \E len \in 1..MaxReq : sReq' = [sReq EXCEPT ![c] = len]
    /\ Goto(c, "claim")
    /\ UNCHANGED <<sInPtr, sInLen, sOutPtr, sOutLen, sNew, sRes, sRaced, notSys>>

\* SysClaim as a plain store: the pointer is not compared with null
SysClaimBlind(c) ==
    /\ sPc[c] = "claim"
    /\ sInPtr' = InBuf(c)
    /\ Goto(c, "pubInLen")
    /\ sRaced' = (sRaced \/ \E d \in Callers \ {c} : sPc[d] \in PostTrap)
    /\ UNCHANGED <<sInLen, sOutPtr, sOutLen, sReq, sNew, sRes, notSys>>

\* SYSCALL_IN_PTR.compare_exchange(null_mut(), in_ptr): the claim succeeds
SysClaim(c) ==
    /\ sPc[c] = "claim"
    /\ sInPtr = NullPtr
    /\ sInPtr' = InBuf(c)
    /\ Goto(c, "pubInLen")
    /\ sRaced' = (sRaced \/ \E d \in Callers \ {c} : sPc[d] \in PostTrap)
    /\ UNCHANGED <<sInLen, sOutPtr, sOutLen, sReq, sNew, sRes, notSys>>

\* SysBusy that takes the slot over: the refused caller nulls the pointer
SysBusyClear(c) ==
    /\ sPc[c] = "claim"
    /\ sInPtr # NullPtr
    /\ sInPtr' = NullPtr
    /\ Goto(c, "idle")
    /\ sRes' = [sRes EXCEPT ![c] = "busy"]
    /\ sReq' = [sReq EXCEPT ![c] = 0]
    /\ UNCHANGED <<sInLen, sOutPtr, sOutLen, sNew, sRaced, notSys>>

\* compare_exchange fails: .map_err(drop)? returns Err(()) at once
SysBusy(c) ==
    /\ sPc[c] = "claim"
    /\ sInPtr # NullPtr
    /\ Goto(c, "idle")
    /\ sRes' = [sRes EXCEPT ![c] = "busy"]
    /\ sReq' = [sReq EXCEPT ![c] = 0]
    /\ UNCHANGED <<sInPtr, sInLen, sOutPtr, sOutLen, sNew, sRaced, notSys>>

\* SYSCALL_IN_LEN.store(input.len())
SysPubInLen(c) ==
    /\ sPc[c] = "pubInLen"
    /\ sInLen' = sReq[c]
    /\ Goto(c, "pubOutPtr")
    /\ UNCHANGED <<sInPtr, sOutPtr, sOutLen, sReq, sNew, sRes, sRaced, notSys>>

\* SysPubOutPtr that stores nothing: the outgoing pointer is left as it was
SysPubOutPtrSkip(c) ==
    /\ sPc[c] = "pubOutPtr"
    /\ Goto(c, "pubOutLen")
    /\ UNCHANGED <<sInPtr, sInLen, sOutPtr, sOutLen, sReq, sNew, sRes, sRaced, notSys>>

\* SYSCALL_OUT_PTR.store(output.as_ptr())
SysPubOutPtr(c) ==
    /\ sPc[c] = "pubOutPtr"
    /\ sOutPtr' = OutBuf(c)
    /\ Goto(c, "pubOutLen")
    /\ UNCHANGED <<sInPtr, sInLen, sOutLen, sReq, sNew, sRes, sRaced, notSys>>

\* SYSCALL_OUT_LEN.store(output.len())
SysPubOutLen(c) ==
    /\ sPc[c] = "pubOutLen"
    /\ sOutLen' = OutCap
    /\ Goto(c, "svc")
    /\ UNCHANGED <<sInPtr, sInLen, sOutPtr, sReq, sNew, sRes, sRaced, notSys>>

\* the lengths the privileged handler may write: 0 (failure) when a field it
\* needs is null or zero, otherwise any length up to the published capacity
HandlerLens ==
    IF sInPtr = NullPtr \/ sInLen = 0 \/ sOutPtr = NullPtr \/ sOutLen = 0
    THEN {0}
    ELSE {len \in 0..MaxReq : len <= sOutLen}

\* the privileged handler, run to completion by the trap: it writes the
\* encoded length and clears the other shared fields as its last act
Handler(len) ==
    /\ sOutLen' = len
    /\ sInPtr' = NullPtr
    /\ sInLen' = 0
    /\ sOutPtr' = NullPtr

\* asm!("svc 0")
SysTrap(c) ==
    /\ sPc[c] = "svc"
    /\ \E len \in HandlerLens : Handler(len)
    /\ Goto(c, "take")
    /\ UNCHANGED <<sReq, sNew, sRes, sRaced, notSys>>

\* SysTake as a load: the outgoing length is read but not zeroed
SysTakeLoad(c) ==
    /\ sPc[c] = "take"
    /\ sNew' = [sNew EXCEPT ![c] = sOutLen]
    /\ Goto(c, "rstOutPtr")
    /\ UNCHANGED <<sInPtr, sInLen, sOutPtr, sOutLen, sReq, sRes, sRaced, notSys>>

\* let new_out_len = SYSCALL_OUT_LEN.swap(0)
SysTake(c) ==
    /\ sPc[c] = "take"
    /\ sNew' = [sNew EXCEPT ![c] = sOutLen]
    /\ sOutLen' = 0
    /\ Goto(c, "rstOutPtr")
    /\ UNCHANGED <<sInPtr, sInLen, sOutPtr, sReq, sRes, sRaced, notSys>>

\* SYSCALL_OUT_PTR.store(null_mut())
SysRstOutPtr(c) ==
    /\ sPc[c] = "rstOutPtr"
    /\ sOutPtr' = NullPtr
    /\ Goto(c, "rstInLen")
    /\ UNCHANGED <<sInPtr, sInLen, sOutLen, sReq, sNew, sRes, sRaced, notSys>>

\* SysRstInLen that clears the incoming pointer as well
SysRstInLenPtr(c) ==
    /\ sPc[c] = "rstInLen"
    /\ sInLen' = 0
    /\ sInPtr' = NullPtr
    /\ Goto(c, "rstInPtr")
    /\ UNCHANGED <<sOutPtr, sOutLen, sReq, sNew, sRes, sRaced, notSys>>

\* SYSCALL_IN_LEN.store(0)
SysRstInLen(c) ==
    /\ sPc[c] = "rstInLen"
    /\ sInLen' = 0
    /\ Goto(c, "rstInPtr")
    /\ UNCHANGED <<sInPtr, sOutPtr, sOutLen, sReq, sNew, sRes, sRaced, notSys>>

\* SysRstInPtr that does not look at new_out_len: the result is always Ok
SysRstInPtrOk(c) ==
    /\ sPc[c] = "rstInPtr"
    /\ sInPtr' = NullPtr
    /\ Goto(c, "idle")
    /\ sRes' = [sRes EXCEPT ![c] = "ok"]
    /\ sReq' = [sReq EXCEPT ![c] = 0]
    /\ sNew' = [sNew EXCEPT ![c] = 0]
    /\ UNCHANGED <<sInLen, sOutPtr, sOutLen, sRaced, notSys>>

\* SYSCALL_IN_PTR.store(null_mut()), then the result: Err(()) when
\* new_out_len == 0, Ok(&mut output[..new_out_len]) otherwise
SysRstInPtr(c) ==
    /\ sPc[c] = "rstInPtr"
    /\ sInPtr' = NullPtr
    /\ Goto(c, "idle")
    /\ sRes' = [sRes EXCEPT ![c] = IF sNew[c] = 0 THEN "failed" ELSE "ok"]
    /\ sReq' = [sReq EXCEPT ![c] = 0]
    /\ sNew' = [sNew EXCEPT ![c] = 0]
    /\ UNCHANGED <<sInLen, sOutPtr, sOutLen, sRaced, notSys>>

InitSys ==
    /\ AccStart(<<>>)
    /\ SysStart
    /\ MuxStart(0, 0)
    /\ EncIdle

NextSys ==
    \E c \in Callers :
        \/ SysBegin(c)
        \/ SysClaim(c)
        \/ SysBusy(c)
        \/ SysPubInLen(c)
        \/ SysPubOutPtr(c)
        \/ SysPubOutLen(c)
        \/ SysTrap(c)
        \/ SysTake(c)
        \/ SysRstOutPtr(c)
        \/ SysRstInLen(c)
        \/ SysRstInPtr(c)

SpecSys == InitSys /\ [][NextSys]_vars

-----------------------------------------------------------------------------
(* SpecAcc: a caller that hands a stream to feed window by window and       *)
(* re-feeds every remainder feed returns.                                   *)

\* streams that are the encoding of a sequence of frames: empty, or ending in a sentinel
FrameStreams == {s \in SeqUpTo(Bytes, MaxStream) : s = <<>> \/ s[Len(s)] = 0}

\* what a caller does with one feed outcome
AccApply(res, win) ==
    /\ tLast' = [kind |-> "call", pre |-> tAcc, window |-> win, res |-> res]
    /\ tAcc' = res.acc
    /\ tFault' = (res.kind = "fault")
    /\ tFrames' = IF res.kind = "frame" THEN Append(tFrames, res.msg) ELSE tFrames
    /\ tWin' = IF res.kind \in {"frame", "withrem"} THEN res.rem ELSE <<>>

InitAcc ==
    /\ \E stream \in FrameStreams : AccStart(stream)
    /\ SysStart
    /\ MuxStart(0, 0)
    /\ EncIdle

\* the next sub-window of the stream, of k bytes, is fed
FeedWindow ==
    /\ ~tFault
    /\ tWin = <<>>
    /\ \E k \in 1..Len(tLeft) :
        /\ tLeft' = SliceFrom(tLeft, k)
        /\ AccApply(feed(tAcc, SliceTo(tLeft, k)), SliceTo(tLeft, k))
    /\ UNCHANGED <<tStream, notAcc>>

\* the remainder the last feed returned is fed
FeedRemainder ==
    /\ ~tFault
    /\ tWin # <<>>
    /\ AccApply(feed(tAcc, tWin), tWin)
    /\ UNCHANGED <<tStream, tLeft, notAcc>>

NextAcc == FeedWindow \/ FeedRemainder

SpecAcc == InitAcc /\ [][NextAcc]_vars

-----------------------------------------------------------------------------
(* Spec: the port multiplexer. The cooperative context makes one call at a   *)
(* time (register_port, release_port, process, recv, send); a call is cut    *)
(* into steps at its ring-channel operations, and the ISR (poll) and the     *)
(* host may run between any two steps.                                       *)

\* largest grant the ISR asks of the inbound channel
PollRxMax == 128

\* the encoding of one frame
Frame(port, data) == EncodeTo(port, data, max_encoding_length(Len(data))).used

\* the frames the host writes: one for the control port; three for port 1,
\* with UartAccN - 1, UartAccN and UartAccN + 1 bytes before the sentinel; and
\* one with no port tag
HostFrames ==
    {Frame(0, <<2, 0>>), Frame(1, <<1, 2>>), Frame(1, <<1, 2, 1>>),
     Frame(1, <<1, 2, 1, 2>>), <<2, 1, 0>>}

\* the buffers handed to send
SendBufs == {<<1>>, <<2, 1, 0, 2, 1>>}

\* what the host writes at once: a frame in one packet, or in two
HostWrites ==
    {<<f>> : f \in HostFrames} \cup {<<SliceTo(f, 2), SliceFrom(f, 2)>> : f \in HostFrames}

\* `(wgr.len() - 4).min(remaining.len())`: the payload bytes send puts in a
\* reservation of g bytes when r remain
ToUse(g, r) == Min(g - 4, r)

\* split_at with the byte at mid left out of both parts
SplitAtSkip(s, mid) == [now |-> SliceTo(s, mid), later |-> SliceFrom(s, mid + 1)]

\* remaining.split_at(mid)
SplitAt(s, mid) == [now |-> SliceTo(s, mid), later |-> SliceFrom(s, mid)]

\* Push onto a queue that takes any number of chunks
PushFull(ps, port, data) ==
    IF port \notin DOMAIN ps THEN [ok |-> FALSE, ports |-> ps]
    ELSE IF ~AllocOk(HeapUsed(ps), Len(data)) THEN [ok |-> FALSE, ports |-> ps]
    ELSE [ok |-> TRUE, ports |-> [ps EXCEPT ![port] = Append(@, data)]]

\* the ingestion of one payload for port: allocate a chunk, copy, push_back;
\* an unknown port, a failed allocation and a full queue drop the payload
Push(ps, port, data) ==
    IF port \notin DOMAIN ps THEN [ok |-> FALSE, ports |-> ps]
    ELSE IF ~AllocOk(HeapUsed(ps), Len(data)) THEN [ok |-> FALSE, ports |-> ps]
    ELSE IF Len(ps[port]) >= QueueCap THEN [ok |-> FALSE, ports |-> ps]
    ELSE [ok |-> TRUE, ports |-> [ps EXCEPT ![port] = Append(@, data)]]

\* a call starts: it is counted, and the records of the last call are cleared
Enter ==
    /\ pc = "idle"
    /\ ops > 0
    /\ ops' = ops - 1

\* the cooperative context aborts (panic)
Abort(op, port, bytes) ==
    /\ pc' = "panicked"
    /\ ret' = [op |-> op, port |-> port, res |-> "panic", bytes |-> bytes]

\* UsbUartSys::register_port(port)
register_port(port) ==
    /\ Enter
    /\ LET r == RegisterPort(ports, port)
       IN  /\ ports' = r.ports
           /\ ret' = [op |-> "register_port", port |-> port, res |-> r.res, bytes |-> <<>>]
           /\ gIn' = [gIn EXCEPT ![port] = IF r.res = "ok" THEN <<>> ELSE @]
           /\ gOut' = [gOut EXCEPT ![port] = IF r.res = "ok" THEN <<>> ELSE @]
    /\ snd' = NoSend
    /\ UNCHANGED <<inc, out, acc, pc, call, window, rxq, hostLeft, hostLog, notMux>>

\* UsbUartSys::release_port(port)
release_port(port) ==
    /\ Enter
    /\ LET r == ReleasePort(ports, port)
       IN  /\ ports' = r.ports
           /\ ret' = [op |-> "release_port", port |-> port, res |-> r.res, bytes |-> <<>>]
           /\ gIn' = [gIn EXCEPT ![port] = IF r.res = "ok" THEN <<>> ELSE @]
           /\ gOut' = [gOut EXCEPT ![port] = IF r.res = "ok" THEN <<>> ELSE @]
    /\ snd' = NoSend
    /\ UNCHANGED <<inc, out, acc, pc, call, window, rxq, hostLeft, hostLog, notMux>>

\* process() is called
ProcessCall ==
    /\ Enter
    /\ pc' = "proc_read"
    /\ call' = [op |-> "process", port |-> 0, len |-> 0]
    /\ ret' = NoRet
    /\ snd' = NoSend
    /\ UNCHANGED <<inc, out, acc, ports, window, rxq, gIn, gOut, hostLeft, hostLog, notMux>>

\* recv(port, buf) is called with a buf of len bytes: it starts with process()
RecvCall(port, len) ==
    /\ Enter
    /\ pc' = "proc_read"
    /\ call' = [op |-> "recv", port |-> port, len |-> len]
    /\ ret' = NoRet
    /\ snd' = NoSend
    /\ UNCHANGED <<inc, out, acc, ports, window, rxq, gIn, gOut, hostLeft, hostLog, notMux>>

\* process: `while let Ok(rgr) = self.inc.read()`
ProcRead ==
    /\ pc = "proc_read"
    /\ LET r == Read(inc)
       IN  /\ inc' = r.ring
           /\ IF r.res = "ok"
              THEN /\ window' = Granted(r.ring)
                   /\ pc' = "proc_feed"
                   /\ UNCHANGED <<call, ret>>
              ELSE /\ window' = <<>>
                   /\ IF call.op = "recv"
                      THEN pc' = "recv_deq" /\ UNCHANGED <<call, ret>>
                      ELSE /\ pc' = "idle"
                           /\ call' = NoOp
                           /\ ret' = [op |-> "process", port |-> 0, res |-> "ok",
                                      bytes |-> <<>>]
    /\ UNCHANGED <<out, acc, ports, snd, rxq, gIn, gOut, ops, hostLeft, hostLog, notMux>>

\* SendBegin without the port check
SendBeginAny(port, buf, nested) ==
    /\ snd' = [port |-> port, src |-> buf, rem |-> buf, done |-> <<>>,
               res |-> "run", nested |-> nested]
    /\ pc' = "send_grant"

\* send(port, buf) begins, called by the application or by process (nested):
\* the port check
SendBegin(port, buf, nested) ==
    IF port \notin DOMAIN ports
    THEN /\ snd' = [port |-> port, src |-> buf, rem |-> buf, done |-> <<>>,
                    res |-> "err", nested |-> nested]
         /\ pc' = IF nested THEN "proc_push" ELSE "idle"
    ELSE /\ snd' = [port |-> port, src |-> buf, rem |-> buf, done |-> <<>>,
                    res |-> "run", nested |-> nested]
         /\ pc' = "send_grant"

\* process: one pass of `while !window.is_empty()`, one call of feed
ProcFeed ==
    /\ pc = "proc_feed"
    /\ window # <<>>
    /\ \E f \in {feed(acc, window)} : \E d \in {DecodeInPlace(f.msg)} :
           CASE f.kind = "fault" ->
                  /\ Abort(call.op, call.port, <<>>)
                  /\ UNCHANGED <<inc, acc, ports, window, snd, gIn>>
             [] f.kind = "frame" /\ ~d.ok ->
                  /\ acc' = f.acc
                  /\ window' = f.rem
                  /\ UNCHANGED <<inc, ports, pc, snd, ret, gIn>>
             [] f.kind = "frame" /\ d.ok /\ d.port = 0 ->
                  /\ acc' = f.acc
                  /\ window' = f.rem
                  /\ SendBegin(0, d.data, TRUE)
                  /\ UNCHANGED <<inc, ports, ret, gIn>>
             [] f.kind = "frame" /\ d.ok /\ d.port # 0 ->
                  /\ acc' = f.acc
                  /\ window' = f.rem
                  /\ LET p == Push(ports, d.port, d.data)
                     IN  /\ ports' = p.ports
                         /\ gIn' = IF p.ok THEN [gIn EXCEPT ![d.port] = @ \o d.data]
                                   ELSE gIn
                  /\ UNCHANGED <<inc, pc, snd, ret>>
             [] f.kind = "none" ->
                  /\ acc' = f.acc
                  /\ UNCHANGED <<inc, ports, pc, window, snd, ret, gIn>>
             [] f.kind = "norem" ->
                  /\ acc' = f.acc
                  /\ inc' = Release(inc, inc.rlen)
                  /\ window' = <<>>
                  /\ pc' = "proc_read"
                  /\ UNCHANGED <<ports, snd, ret, gIn>>
             [] f.kind = "withrem" ->
                  /\ acc' = f.acc
                  /\ window' = f.rem
                  /\ UNCHANGED <<inc, ports, pc, snd, ret, gIn>>
    /\ UNCHANGED <<out, call, rxq, gOut, ops, hostLeft, hostLog, notMux>>

\* ProcPush that queues the payload only when the loopback send took all of it
ProcPushIfSent ==
    /\ pc = "proc_push"
    /\ LET p == IF snd.res = "ok" THEN Push(ports, snd.port, snd.src)
                ELSE [ok |-> FALSE, ports |-> ports]
       IN  /\ ports' = p.ports
           /\ gIn' = IF p.ok THEN [gIn EXCEPT ![snd.port] = @ \o snd.src] ELSE gIn
    /\ pc' = "proc_feed"
    /\ UNCHANGED <<inc, out, acc, call, window, snd, rxq, ret, gOut, ops, hostLeft,
                   hostLog, notMux>>

\* process: the payload of a port 0 frame is queued after its loopback send
ProcPush ==
    /\ pc = "proc_push"
    /\ LET p == Push(ports, snd.port, snd.src)
       IN  /\ ports' = p.ports
           /\ gIn' = IF p.ok THEN [gIn EXCEPT ![snd.port] = @ \o snd.src] ELSE gIn
    /\ pc' = "proc_feed"
    /\ UNCHANGED <<inc, out, acc, call, window, snd, rxq, ret, gOut, ops, hostLeft,
                   hostLog, notMux>>

\* ProcRelease with a release one byte short of the reservation
ProcReleaseShort ==
    /\ pc = "proc_feed"
    /\ window = <<>>
    /\ inc' = Release(inc, inc.rlen - 1)
    /\ pc' = "proc_read"
    /\ UNCHANGED <<out, acc, ports, call, window, snd, rxq, ret, gIn, gOut, ops, hostLeft,
                   hostLog, notMux>>

\* process: the window is exhausted, `rgr.release(rec_len)`
ProcRelease ==
    /\ pc = "proc_feed"
    /\ window = <<>>
    /\ inc' = Release(inc, inc.rlen)
    /\ pc' = "proc_read"
    /\ UNCHANGED <<out, acc, ports, call, window, snd, rxq, ret, gIn, gOut, ops, hostLeft, hostLog,
                   notMux>>

\* recv after process(): the lookup of the port and the dequeue loop
RecvDeq ==
    /\ pc = "recv_deq"
    /\ IF call.port \notin DOMAIN ports
       THEN /\ pc' = "idle"
            /\ ret' = [op |-> "recv", port |-> call.port, res |-> "err", bytes |-> <<>>]
            /\ UNCHANGED <<ports, gOut>>
       ELSE LET r == RecvLoop(ports[call.port], call.len, <<>>,
                              HeapUsed(Remove(ports, call.port)))
            IN  /\ ports' = [ports EXCEPT ![call.port] = r.deq]
                /\ IF r.res = "panic"
                   THEN Abort("recv", call.port, <<>>) /\ UNCHANGED gOut
                   ELSE /\ pc' = "idle"
                        /\ ret' = [op |-> "recv", port |-> call.port, res |-> "ok",
                                   bytes |-> r.bytes]
                        /\ gOut' = [gOut EXCEPT ![call.port] = @ \o r.bytes]
    /\ call' = NoOp
    /\ UNCHANGED <<inc, out, acc, window, snd, rxq, gIn, ops, hostLeft, hostLog, notMux>>

\* send(port, buf) is called by the application
SendCall(port, buf) ==
    /\ Enter
    /\ SendBegin(port, buf, FALSE)
    /\ call' = IF port \notin DOMAIN ports THEN NoOp
               ELSE [op |-> "send", port |-> port, len |-> Len(buf)]
    /\ ret' = IF port \notin DOMAIN ports
              THEN [op |-> "send", port |-> port, res |-> "err", bytes |-> buf]
              ELSE NoRet
    /\ UNCHANGED <<inc, out, acc, ports, window, rxq, gIn, gOut, hostLeft, hostLog, notMux>>

\* send returns res: to the application, or into process
SendReturn(res) ==
    /\ snd' = [snd EXCEPT !.res = res]
    /\ IF snd.nested
       THEN pc' = "proc_push" /\ UNCHANGED <<call, ret>>
       ELSE /\ pc' = "idle"
            /\ call' = NoOp
            /\ ret' = [op |-> "send", port |-> snd.port, res |-> res, bytes |-> snd.rem]

\* SendGrant that keeps a reservation too short for a frame when it returns
SendGrantHold ==
    /\ pc = "send_grant"
    /\ LET g == GrantMaxRemaining(out, max_encoding_length(Len(snd.rem)))
       IN  CASE snd.rem = <<>> ->
                  SendReturn("ok") /\ UNCHANGED out
             [] snd.rem # <<>> /\ g.res = "ok" /\ g.ring.wlen <= 2 + 1 + 1 ->
                  SendReturn("err") /\ out' = g.ring
             [] snd.rem # <<>> /\ g.res = "insufficient" ->
                  SendReturn("err") /\ UNCHANGED out
             [] snd.rem # <<>> /\ g.res = "ok" /\ g.ring.wlen > 2 + 1 + 1 ->
                  /\ out' = g.ring
                  /\ pc' = "send_commit"
                  /\ UNCHANGED <<call, snd, ret>>
             [] snd.rem # <<>> /\ g.res = "in_progress" ->
                  Abort("send", snd.port, snd.rem) /\ UNCHANGED <<out, call, snd>>
    /\ UNCHANGED <<inc, acc, ports, window, rxq, gIn, gOut, ops, hostLeft, hostLog, notMux>>

\* send: the loop test and `self.out.grant_max_remaining(rem_len)`
SendGrant ==
    /\ pc = "send_grant"
    /\ LET g == GrantMaxRemaining(out, max_encoding_length(Len(snd.rem)))
       IN  CASE snd.rem = <<>> ->
                  SendReturn("ok") /\ UNCHANGED out
             [] snd.rem # <<>> /\ g.res = "ok" /\ g.ring.wlen <= 2 + 1 + 1 ->
                  SendReturn("err") /\ out' = Commit(g.ring, <<>>)
             [] snd.rem # <<>> /\ g.res = "insufficient" ->
                  SendReturn("err") /\ UNCHANGED out
             [] snd.rem # <<>> /\ g.res = "ok" /\ g.ring.wlen > 2 + 1 + 1 ->
                  /\ out' = g.ring
                  /\ pc' = "send_commit"
                  /\ UNCHANGED <<call, snd, ret>>
             [] snd.rem # <<>> /\ g.res = "in_progress" ->
                  Abort("send", snd.port, snd.rem) /\ UNCHANGED <<out, call, snd>>
    /\ UNCHANGED <<inc, acc, ports, window, rxq, gIn, gOut, ops, hostLeft, hostLog, notMux>>

\* the payload of the frame the outbound channel holds in its len bytes
\* from start
Committed(r, start, len) == DecodeInPlace(SubSeq(r.buf, start + 1, start + len)).data

\* send: encode into the grant, `wgr.commit(used)`, `remaining = later`
SendCommit ==
    /\ pc = "send_commit"
    /\ \E sp \in {SplitAt(snd.rem, ToUse(out.wlen, Len(snd.rem)))} :
       \E e \in {EncodeTo(snd.port, sp.now, out.wlen)} :
       \E committed \in {Commit(out, e.used)} :
           IF ~e.ok
           THEN Abort("send", snd.port, snd.rem) /\ UNCHANGED <<out, snd>>
           ELSE /\ out' = committed
                /\ snd' = [snd EXCEPT
                              !.rem = sp.later,
                              !.done = @ \o Committed(committed, out.wstart, Len(e.used))]
                /\ pc' = "send_grant"
                /\ UNCHANGED ret
    /\ UNCHANGED <<inc, acc, ports, call, window, rxq, gIn, gOut, ops, hostLeft,
                   hostLog, notMux>>

\* PollOut that rewinds the outbound channel to its start once the port has
\* accepted all that waited
PollOutRewind(room) ==
    LET r == Read(out)
    IN  IF r.res = "ok"
        THEN LET rel == Release(r.ring, Min(room, r.ring.rlen))
             IN  out' = IF rel.read = rel.write /\ ~rel.wip
                        THEN [rel EXCEPT !.read = 0, !.write = 0, !.reserve = 0]
                        ELSE rel
        ELSE out' = r.ring

\* PollOut that releases the whole reservation whatever the port accepted
PollOutAll(room) ==
    LET r == Read(out)
    IN  IF r.res = "ok"
        THEN out' = Release(r.ring, r.ring.rlen)
        ELSE out' = r.ring

\* poll, outbound half: `self.ser.write(&rgr)` on a serial port with room for
\* `room` bytes returns Ok(sz) with sz the lesser of room and rgr.len(), or
\* Ok(0) or WouldBlock for no room; release(sz), or the reservation is dropped
PollOut(room) ==
    LET r == Read(out)
    IN  IF r.res = "ok"
        THEN out' = Release(r.ring, Min(room, r.ring.rlen))
        ELSE out' = r.ring

\* the bytes the serial port accepts in PollOut(room)
Accepted(room) ==
    LET r == Read(out)
    IN  IF r.res = "ok"
        THEN SliceTo(Granted(r.ring), Min(room, r.ring.rlen))
        ELSE <<>>

\* PollIn that asks for all the room of the inbound channel
PollInNoCap ==
    LET g == GrantMaxRemaining(inc, Len(inc.buf))
    IN  IF g.res = "ok" /\ rxq # <<>>
        THEN LET sz == Min(g.ring.wlen, Len(Head(rxq)))
                 later == SliceFrom(Head(rxq), sz)
             IN  /\ inc' = Commit(g.ring, SliceTo(Head(rxq), sz))
                 /\ rxq' = IF later = <<>> THEN Tail(rxq) ELSE <<later>> \o Tail(rxq)
        ELSE /\ inc' = Commit(g.ring, <<>>)
             /\ UNCHANGED rxq

\* poll, inbound half: the device delivers the head packet of the host, as
\* far as the grant holds it
PollIn ==
    LET g == GrantMaxRemaining(inc, PollRxMax)
    IN  IF g.res = "ok" /\ rxq # <<>>
        THEN LET sz == Min(g.ring.wlen, Len(Head(rxq)))
                 later == SliceFrom(Head(rxq), sz)
             IN  /\ inc' = Commit(g.ring, SliceTo(Head(rxq), sz))
                 /\ rxq' = IF later = <<>> THEN Tail(rxq) ELSE <<later>> \o Tail(rxq)
        ELSE /\ inc' = Commit(g.ring, <<>>)
             /\ UNCHANGED rxq

\* UsbUartIsr::poll with a serial port that has room for all it is offered
poll ==
    /\ pc # "panicked"
    /\ PollOut(RingCap)
    /\ PollIn
    /\ UNCHANGED <<acc, ports, pc, call, window, snd, ret, gIn, gOut, ops, hostLeft,
                   hostLog, notMux>>

\* UsbUartIsr::poll with a serial port that has room for `room` bytes, and
\* what the port accepts recorded
PollTx(room) ==
    /\ pc # "panicked"
    /\ PollOut(room)
    /\ PollIn
    /\ txLog' = txLog \o Accepted(room)
    /\ UNCHANGED <<acc, ports, pc, call, window, snd, ret, gIn, gOut, ops, hostLeft,
                   hostLog, notTx>>

\* the host writes the packets of one frame to the serial device
HostWrite(packets) ==
    /\ pc # "panicked"
    /\ rxq = <<>>
    /\ hostLeft > 0
    /\ hostLeft' = hostLeft - 1
    /\ hostLog' = Append(hostLog, Flatten(packets))
    /\ rxq' = packets
    /\ UNCHANGED <<inc, out, acc, ports, pc, call, window, snd, ret, gIn, gOut, ops, notMux>>

Init == AccStart(<<>>) /\ SysStart /\ MuxStart(MaxOps, MaxHost) /\ EncIdle

Next ==
    \/ \E port \in PortIds : register_port(port)
    \/ \E port \in PortIds : release_port(port)
    \/ ProcessCall
    \/ \E port \in PortIds, len \in 0..MaxDest : RecvCall(port, len)
    \/ ProcRead
    \/ ProcFeed
    \/ ProcPush
    \/ ProcRelease
    \/ RecvDeq
    \/ \E port \in PortIds, buf \in SendBufs : SendCall(port, buf)
    \/ SendGrant
    \/ SendCommit
    \/ poll
    \/ \E packets \in HostWrites : HostWrite(packets)

Spec == Init /\ [][Next]_vars

\* the steps inside a call of the cooperative context
Running ==
    \/ ProcRead
    \/ ProcFeed
    \/ ProcPush
    \/ ProcRelease
    \/ RecvDeq
    \/ SendGrant
    \/ SendCommit

\* SpecFair: the interrupt handler returns, and the idle task it preempted
\* runs on: a call that can take a step takes it
SpecFair == Spec /\ WF_vars(Running)

-----------------------------------------------------------------------------
(* SpecLoaded: the multiplexer started from states that earlier frames for   *)
(* port 0 leave behind: its queue empty, full of empty chunks, or holding    *)
(* one chunk that leaves a single byte of the heap free.                     *)

Prefills ==
    {<<>>, [i \in 1..QueueCap |-> <<>>], <<[i \in 1..(HeapCap - 1) |-> 1]>>}

\* the multiplexer with queue q on port 0 and nothing in flight
MuxLoaded(q, nops, nhost) ==
    /\ BootDone
    /\ inc = RingNew(RingCap)
    /\ out = RingNew(RingCap)
    /\ acc = AccNew(UartAccN)
    /\ ports = Insert(PortsNew, 0, q)
    /\ pc = "idle"
    /\ call = NoOp
    /\ window = <<>>
    /\ snd = NoSend
    /\ rxq = <<>>
    /\ ret = NoRet
    /\ gIn = [id \in AllIds |-> IF id = 0 THEN Flatten(q) ELSE <<>>]
    /\ gOut = [id \in AllIds |-> <<>>]
    /\ ops = nops
    /\ hostLeft = nhost
    /\ hostLog = <<>>

InitLoaded ==
    /\ AccStart(<<>>)
    /\ SysStart
    /\ EncIdle
    /\ \E q \in Prefills : MuxLoaded(q, MaxOps - 1, MaxHost)

SpecLoaded == InitLoaded /\ [][Next]_vars

-----------------------------------------------------------------------------
(* SpecBoot: the construction of the driver. setup_usb_uart is called up to  *)
(* MaxSetups times; once it has returned Ok the registry is driven.          *)

\* setup_usb_uart that does not look at what try_split returns
setup_usb_uart_again ==
    /\ Len(setups) < MaxSetups
    /\ split' = [inc |-> TRUE, out |-> TRUE]
    /\ setups' = Append(setups, "ok")
    /\ ports' = PortsNew
    /\ acc' = AccNew(UartAccN)
    /\ pc' = "idle"
    /\ UNCHANGED <<inc, out, call, window, snd, rxq, ret, gIn, gOut, ops, hostLeft, hostLog,
                   accVars, sysVars, encVars, txVars>>

\* setup_usb_uart: both try_split succeed and the parts are built, or Err
setup_usb_uart ==
    /\ Len(setups) < MaxSetups
    /\ LET i == TrySplit(split.inc)
           o == TrySplit(split.out)
       IN  IF ~i.ok
           THEN /\ split' = [split EXCEPT !.inc = i.taken]
                /\ setups' = Append(setups, "err")
                /\ UNCHANGED <<ports, acc, pc>>
           ELSE IF ~o.ok
           THEN /\ split' = [inc |-> i.taken, out |-> o.taken]
                /\ setups' = Append(setups, "err")
                /\ UNCHANGED <<ports, acc, pc>>
           ELSE /\ split' = [inc |-> i.taken, out |-> o.taken]
                /\ setups' = Append(setups, "ok")
                /\ ports' = PortsNew
                /\ acc' = AccNew(UartAccN)
                /\ pc' = "idle"
    /\ UNCHANGED <<inc, out, call, window, snd, rxq, ret, gIn, gOut, ops, hostLeft, hostLog,
                   accVars, sysVars, encVars, txVars>>

\* the statics before the first call of setup_usb_uart: no UsbUartSys yet
InitBoot ==
    /\ AccStart(<<>>)
    /\ SysStart
    /\ EncIdle
    /\ split = [inc |-> FALSE, out |-> FALSE]
    /\ setups = <<>>
    /\ inc = RingNew(RingCap)
    /\ out = RingNew(RingCap)
    /\ acc = AccNew(UartAccN)
    /\ ports = PortsNew
    /\ pc = "unbuilt"
    /\ call = NoOp
    /\ window = <<>>
    /\ snd = NoSend
    /\ rxq = <<>>
    /\ ret = NoRet
    /\ gIn = [id \in AllIds |-> <<>>]
    /\ gOut = [id \in AllIds |-> <<>>]
    /\ ops = MaxOps
    /\ hostLeft = 0
    /\ hostLog = <<>>

NextBoot ==
    \/ setup_usb_uart
    \/ \E port \in AllIds : register_port(port)
    \/ \E port \in AllIds : release_port(port)

SpecBoot == InitBoot /\ [][NextBoot]_vars

-----------------------------------------------------------------------------
(* SpecReg: the registry driven by register_port and release_port alone,    *)
(* with more ids than it can hold and enough calls to fill it, be refused,  *)
(* release and register again.                                              *)

InitReg == AccStart(<<>>) /\ SysStart /\ MuxStart(MaxPorts + 2, 0) /\ EncIdle

NextReg ==
    \/ \E port \in AllIds : register_port(port)
    \/ \E port \in AllIds : release_port(port)

SpecReg == InitReg /\ [][NextReg]_vars

-----------------------------------------------------------------------------
(* SpecEgress: send calls preempted by poll between any two of their steps,  *)
(* with a serial port that has room for none, some or all of what poll       *)
(* offers. The host writes nothing.                                          *)

\* the room the serial port has when poll offers it bytes
Rooms == {0, 1, RingCap}

InitEgress ==
    /\ AccStart(<<>>)
    /\ SysStart
    /\ MuxStart(MaxOps, 0)
    /\ EncIdle

NextEgress ==
    \/ \E port \in PortIds, buf \in SendBufs : SendCall(port, buf)
    \/ SendGrant
    \/ SendCommit
    \/ \E room \in Rooms : PollTx(room)

SpecEgress == InitEgress /\ [][NextEgress]_vars

-----------------------------------------------------------------------------
(* SpecIngress: process preempted by poll on an inbound channel that holds   *)
(* more than one poll asks for. The host writes frames and a packet longer   *)
(* than PollRxMax; what the device has not handed over waits in rxq.         *)

\* the size of the inbound channel
IngressCap == PollRxMax + 2

\* the host writes made
MaxIngress == 2

\* what the host writes at once: a frame for the control port, a frame for
\* port 1, or PollRxMax + 1 bytes with the sentinel of a frame close to the end
IngressWrites ==
    {<<Frame(0, <<2, 0>>)>>, <<Frame(1, <<1, 2>>)>>,
     <<[i \in 1..(PollRxMax + 1) |-> IF i = PollRxMax - 1 THEN 0 ELSE 1]>>}

InitIngress ==
    /\ AccStart(<<>>)
    /\ SysStart
    /\ EncIdle
    /\ BootDone
    /\ inc = RingNew(IngressCap)
    /\ out = RingNew(RingCap)
    /\ acc = AccNew(UartAccN)
    /\ ports = PortsNew
    /\ pc = "idle"
    /\ call = NoOp
    /\ window = <<>>
    /\ snd = NoSend
    /\ rxq = <<>>
    /\ ret = NoRet
    /\ gIn = [id \in AllIds |-> <<>>]
    /\ gOut = [id \in AllIds |-> <<>>]
    /\ ops = MaxOps
    /\ hostLeft = MaxIngress
    /\ hostLog = <<>>

NextIngress ==
    \/ ProcessCall
    \/ ProcRead
    \/ ProcFeed
    \/ ProcPush
    \/ ProcRelease
    \/ SendGrant
    \/ SendCommit
    \/ poll
    \/ \E packets \in IngressWrites : HostWrite(packets)

SpecIngress == InitIngress /\ [][NextIngress]_vars

-----------------------------------------------------------------------------
(* SpecEnc: the loop of send followed over lengths only. The reservation of  *)
(* each pass has any length the outbound channel can grant: what is free     *)
(* depends on what was committed before and on what the ISR has released     *)
(* since. An encoding takes max_encoding_length of its payload.              *)

\* the buffers handed to send, by length: short ones and the longest
EncLens == (0..3) \cup ((MaxRem - 1)..MaxRem)

\* what grant_max_remaining(rem_len) returns for r remaining bytes, by
\* length: 0 for Err(InsufficientSize), or a grant of up to rem_len bytes
EncGrants(r) ==
    {g \in (0..6) \cup ((MaxGrant - 2)..MaxGrant) : g <= max_encoding_length(r)}

InitEnc ==
    /\ AccStart(<<>>)
    /\ SysStart
    /\ MuxStart(0, 0)
    /\ eRemaining \in EncLens
    /\ eGrant = 0
    /\ eRes = "run"
    /\ txLog = <<>>

\* send: `while !remaining.is_empty()` fails, Ok(())
SendLenReturn ==
    /\ eRes = "run"
    /\ eRemaining = 0
    /\ eRes' = "ok"
    /\ UNCHANGED <<eRemaining, eGrant, notEnc>>

\* send: one pass of the loop with a reservation of g bytes
SendLenPass(g) ==
    /\ eRes = "run"
    /\ eRemaining > 0
    /\ eGrant' = g
    /\ IF g <= 2 + 1 + 1
       THEN eRes' = "err" /\ UNCHANGED eRemaining
       ELSE IF max_encoding_length(ToUse(g, eRemaining)) > g
       THEN eRes' = "panic" /\ UNCHANGED eRemaining
       ELSE eRes' = "run" /\ eRemaining' = eRemaining - ToUse(g, eRemaining)
    /\ UNCHANGED notEnc

NextEnc ==
    \/ SendLenReturn
    \/ \E g \in EncGrants(eRemaining) : SendLenPass(g)

SpecEnc == InitEnc /\ [][NextEnc]_vars

-----------------------------------------------------------------------------
(* Properties of the port multiplexer *)

\* one step is a whole call of op on port
IsCall(op, port) == ops' = ops - 1 /\ ret'.op = op /\ ret'.port = port

\* one step is the entry of send on port
IsSend(port) == ops' = ops - 1 /\ snd'.res # "none" /\ snd'.port = port

\* one step is the port lookup and the dequeue loop of a recv
IsRecvDeq == pc = "recv_deq" /\ pc' # "recv_deq"

\* C1 (as claimed): for every registered port, the bytes recv has returned
\* followed by the bytes still queued are the chunks ingested for it, in
\* order: the returned bytes are a prefix of the ingested ones, and all of
\* them once the queue is empty.
C1_RecvReconstructs ==
    \A id \in DOMAIN ports : gOut[id] \o Flatten(ports[id]) = gIn[id]

\* C2: at every point of a send, and when it returns, the payloads of the
\* frames it has committed to the outbound channel followed by the part
\* still to send are the source; Err returns that part, Ok leaves none.
C2_SendSplit ==
    /\ snd.done \o snd.rem = snd.src
    /\ snd.res = "ok" => snd.rem = <<>> /\ snd.done = snd.src
    /\ (ret.op = "send" /\ ret.res = "err") =>
           /\ ret.bytes = snd.rem
           /\ ret.bytes = SliceFrom(snd.src, Len(snd.src) - Len(ret.bytes))
    /\ (ret.op = "send" /\ ret.res = "ok") => snd.res = "ok"

\* C2 happens: a send by the application committed part of its source and
\* returned the rest as Err
C2_Witness ==
    /\ ret.op = "send" /\ ret.res = "err"
    /\ ~snd.nested
    /\ snd.done # <<>> /\ snd.rem # <<>>

\* C6: register_port of a registered id fails, release_port of 0 and of an
\* unregistered id fails, and each leaves the registry and the queues as they
\* were; send and recv on an unregistered id return Err.
C6_LifecycleErrors ==
    [][\A id \in PortIds :
          /\ (IsCall("register_port", id) /\ id \in DOMAIN ports) =>
                 ret'.res = "err" /\ ports' = ports
          /\ (IsCall("release_port", id) /\ (id = 0 \/ id \notin DOMAIN ports)) =>
                 ret'.res = "err" /\ ports' = ports
          /\ (IsSend(id) /\ id \notin DOMAIN ports) =>
                 /\ snd'.res = "err" /\ snd'.rem = snd'.src
                 /\ ret'.op = "send" /\ ret'.res = "err"
                 /\ out' = out /\ ports' = ports
          /\ (IsRecvDeq /\ call.port = id /\ id \notin DOMAIN ports) =>
                 /\ ret'.op = "recv" /\ ret'.res = "err"
                 /\ ports' = ports
      ]_vars

\* C6 happens: register_port was refused for a registered port whose queue
\* holds a chunk
C6_Witness ==
    /\ ret.op = "register_port" /\ ret.res = "err"
    /\ ret.port \in DOMAIN ports
    /\ ports[ret.port] # <<>>

\* C7: the registry never holds more than 8 ports; register_port of a new id
\* fails exactly when 8 are registered and otherwise adds the id; a
\* successful release_port removes its id, which frees a slot.
C7_RegistryCapacity ==
    [][/\ Cardinality(DOMAIN ports') <= 8
       /\ \A id \in AllIds :
             /\ (IsCall("register_port", id) /\ id \notin DOMAIN ports) =>
                    /\ ret'.res = "err" <=> Cardinality(DOMAIN ports) = 8
                    /\ ret'.res = "err" => ports' = ports
                    /\ ret'.res = "ok" => DOMAIN ports' = DOMAIN ports \cup {id}
             /\ (IsCall("release_port", id) /\ ret'.res = "ok") =>
                    DOMAIN ports' = DOMAIN ports \ {id}
      ]_vars

\* C7 happens: the registry holds 8 ports and register_port of a new id was
\* refused
C7_Witness ==
    /\ Cardinality(DOMAIN ports) = 8
    /\ ret.op = "register_port" /\ ret.res = "err"
    /\ ret.port \notin DOMAIN ports

\* C8: port 0 is registered in every reachable state.
C8_PortZeroRegistered == 0 \in DOMAIN ports

\* C8 happens: release_port(0) was called, and port 0 is registered
C8_Witness ==
    /\ ret.op = "release_port" /\ ret.port = 0
    /\ 0 \in DOMAIN ports

\* C9 (as claimed): the dequeue of a recv on a registered port returns Ok
\* with at most len(dest) bytes, in every state of the queues and the heap.
C9_RecvSucceeds ==
    [][(IsRecvDeq /\ call.port \in DOMAIN ports) =>
           /\ ret'.op = "recv" /\ ret'.res = "ok"
           /\ Len(ret'.bytes) <= call.len
      ]_vars

\* C15: send on an unregistered port returns Err with all of src in the step
\* of the call: no write reservation is taken and the outbound channel is as
\* it was.
C15_SendUnregistered ==
    [][\A id \in PortIds :
          (IsSend(id) /\ id \notin DOMAIN ports) =>
              /\ pc' = "idle"
              /\ ret' = [op |-> "send", port |-> id, res |-> "err", bytes |-> snd'.src]
              /\ snd'.done = <<>>
              /\ out' = out /\ ~out'.wip
      ]_vars

\* C15 happens: send on an unregistered port returned its source while the
\* outbound channel holds bytes of an earlier send
C15_Witness ==
    /\ ret.op = "send" /\ ret.res = "err"
    /\ ret.port \notin DOMAIN ports
    /\ ret.bytes = snd.src /\ snd.src # <<>>
    /\ out.write # out.read

\* C16: of any sequence of calls of setup_usb_uart the first returns Ok
\* and every later one Err, so the handles of each ring channel are taken
\* once.
C16_SetupOnce ==
    \A i \in 1..Len(setups) : setups[i] = (IF i = 1 THEN "ok" ELSE "err")

\* C16 happens: setup_usb_uart was called again after the driver was built
\* and used
C16_Witness ==
    /\ Len(setups) >= 2 /\ setups[1] = "ok" /\ setups[Len(setups)] = "err"
    /\ Cardinality(DOMAIN ports) > 1

\* one step is a call of feed by process
IsFeed ==
    /\ pc = "proc_feed" /\ window # <<>>
    /\ <<acc, window, pc>>' # <<acc, window, pc>>

\* one step is the queueing of a port 0 payload after its loopback
IsPush == pc = "proc_push" /\ pc' # "proc_push"

\* a payload for port cannot be queued: the port is not registered, the heap
\* cannot hold the chunk, or the queue holds 16 chunks
NoPlace(port, data) ==
    \/ port \notin DOMAIN ports
    \/ HeapUsed(ports) + Len(data) > HeapCap
    \/ Len(ports[port]) >= 16

\* C14: a decoded frame that cannot be queued is discarded: every queue is
\* as it was, nothing is returned or aborted, and process goes on with the
\* rest of the window.
C14_SilentDrop ==
    [][/\ IsFeed =>
           LET f == feed(acc, window)
               d == DecodeInPlace(f.msg)
           IN  (f.kind = "frame" /\ d.ok /\ d.port # 0 /\ NoPlace(d.port, d.data)) =>
                   /\ ports' = ports
                   /\ pc' = "proc_feed" /\ window' = f.rem
                   /\ ret' = ret /\ call' = call
       /\ (IsPush /\ NoPlace(snd.port, snd.src)) =>
               /\ ports' = ports
               /\ pc' = "proc_feed" /\ window' = window
               /\ ret' = ret /\ call' = call
      ]_vars

\* C14 happens: process has handled a port 0 frame whose payload the heap
\* could hold, and the queue of port 0 holds 16 chunks as before
C14_Witness ==
    /\ pc = "proc_feed" /\ snd.nested
    /\ Len(ports[snd.port]) = 16
    /\ gIn[snd.port] = <<>>

\* every byte the host has written has passed through process
Drained ==
    /\ pc = "idle"
    /\ rxq = <<>>
    /\ Read(inc).res = "insufficient"

\* C17 (as claimed): a frame for port 0 that fits the Accumulator, all of
\* whose bytes have passed through process, in one read reservation or split
\* over several, has been queued once on port 0 with its payload.
C17_SplitFrameDecoded ==
    (Drained /\ Len(hostLog) = 1) =>
        LET d == DecodeInPlace(hostLog[1])
        IN  (d.ok /\ d.port = 0 /\ Len(hostLog[1]) <= UartAccN) => gIn[0] = d.data

\* C19: process takes a read reservation of the inbound ring only when none
\* is outstanding, every reservation ends by a release of its full length made
\* by process, and none is outstanding when process takes the next one or
\* returns.
C19_ReleasedInFull ==
    [][/\ (~inc.rip /\ inc'.rip) => pc = "proc_read"
       /\ (inc.rip /\ ~inc'.rip) =>
              /\ pc = "proc_feed"
              /\ pc' = "proc_read"
              /\ inc'.read = inc.read + inc.rlen
       /\ pc' \in {"proc_read", "recv_deq", "idle"} => ~inc'.rip
      ]_vars

\* C19 witness: process has released, in one reservation or two, more bytes
\* than the Accumulator holds, and is about to read the next
C19_Witness ==
    /\ pc = "proc_read"
    /\ ~inc.rip
    /\ inc.read > UartAccN

\* the frame that the feed about to be made by process completes and decodes,
\* if it does
Decoded ==
    LET f == feed(acc, window)
        d == DecodeInPlace(f.msg)
    IN  IF f.kind = "frame" /\ d.ok THEN d ELSE [ok |-> FALSE, port |-> 0, data |-> <<>>]

\* C21: process hands the payload of every decoded frame for port 0 to send
\* on port 0, and whatever that send returns it then queues the same payload
\* on port 0, unless the queue or the heap is full; the feed of any other
\* frame starts no send and leaves the outbound channel as it was.
C21_Loopback ==
    [][/\ (IsFeed /\ Decoded.ok /\ Decoded.port = 0) =>
              /\ pc' = "send_grant"
              /\ snd' = [port |-> 0, src |-> Decoded.data, rem |-> Decoded.data,
                         done |-> <<>>, res |-> "run", nested |-> TRUE]
       /\ (IsFeed /\ ~(Decoded.ok /\ Decoded.port = 0)) =>
              /\ pc' # "send_grant"
              /\ out' = out
       /\ (pc = "proc_push" /\ pc' # "proc_push") =>
              /\ snd.nested /\ snd.port = 0 /\ snd.res \in {"ok", "err"}
              /\ ports' = IF /\ Len(ports[0]) < QueueCap
                             /\ AllocOk(HeapUsed(ports), Len(snd.src))
                          THEN [ports EXCEPT ![0] = Append(@, snd.src)]
                          ELSE ports
      ]_vars

\* C21 witness: the loopback send of a payload has failed after committing
\* nothing, and the payload is queued on port 0
C21_Witness ==
    /\ pc = "proc_feed"
    /\ snd.nested /\ snd.res = "err" /\ snd.done = <<>>
    /\ snd.src # <<>>
    /\ ports[0] = <<snd.src>>

\* C24 (as claimed): no queue ever holds more than QueueCap chunks, and the
\* bytes recv returns followed by the bytes it leaves queued on its port are
\* the bytes that were queued there before it.
C24_QueueSplit ==
    [][/\ \A p \in DOMAIN ports' : Len(ports'[p]) <= QueueCap
       /\ (IsRecvDeq /\ call.port \in DOMAIN ports) =>
              Flatten(ports[call.port]) = ret'.bytes \o Flatten(ports'[call.port])
      ]_vars

\* every pass of the loop of recv, from the given one on, returns, or goes on
\* with more bytes written or fewer chunks queued
RECURSIVE RecvProgress(_, _, _, _)
RecvProgress(deq, buflen, got, other) ==
    LET p == RecvPass(deq, buflen, got, other)
    IN  CASE p.kind = "return" -> TRUE
          [] p.kind = "panic" -> FALSE
          [] p.kind = "next" ->
               /\ Len(p.bytes) > Len(got) \/ Len(p.deq) < Len(deq)
               /\ RecvProgress(p.deq, buflen, p.bytes, other)

\* C28 (as claimed): when recv has run process and found its port, every
\* pass of its loop returns, writes more bytes, or shortens the queue.
C28_RecvTerminates ==
    (pc = "recv_deq" /\ call.port \in DOMAIN ports) =>
        RecvProgress(ports[call.port], call.len, <<>>,
                     HeapUsed(Remove(ports, call.port)))

\* C29: no reservation of the ISR outlives poll; the cooperative side holds a
\* write reservation of the outbound channel only between the grant and the
\* commit of one pass of send, and a read reservation of the inbound channel
\* only inside process; neither is outstanding when send or process asks
\* for the next, and send never aborts on a reservation in progress.
C29_ReservationDiscipline ==
    /\ ~out.rip
    /\ ~inc.wip
    /\ out.wip => pc \in {"send_commit", "panicked"}
    /\ inc.rip => /\ pc \in {"proc_feed", "proc_push", "send_grant", "send_commit",
                              "panicked"}
                  /\ pc \in {"send_grant", "send_commit"} => snd.nested
    /\ pc = "send_grant" => ~out.wip
    /\ pc = "proc_read" => ~inc.rip

\* C29 witness: send, called by process while it holds a read reservation of
\* the inbound channel, has committed a frame and asks for its next write
\* reservation
C29_Witness ==
    /\ pc = "send_grant"
    /\ snd.nested
    /\ snd.done # <<>>
    /\ inc.rip
    /\ ~out.wip

\* C20 (as claimed): a call of process returns, and when it returns the
\* inbound ring is empty.
C20_ProcessReturns ==
    (pc = "proc_read" /\ call.op = "process")
        ~> (/\ pc = "idle"
            /\ ret.op = "process"
            /\ ret.res = "ok"
            /\ Read(inc).res = "insufficient")

\* C18 (as claimed): after a feed by process that takes the whole window
\* without completing a frame, the window is exhausted.
C18_FedOnce ==
    [][(IsFeed /\ feed(acc, window).kind = "none") => window' = <<>>]_vars

-----------------------------------------------------------------------------
(* Properties of the syscall slot *)

\* the callers between a successful claim and the end of their reset
Holders == {c \in Callers : sPc[c] \in Holding}

\* one step of caller c is its successful claim
Claims(c) == sPc[c] = "claim" /\ sPc'[c] = "pubInLen"

\* one step of caller c completes its call (the last store of the reset)
Completes(c) == sPc[c] = "rstInPtr" /\ sPc'[c] = "idle"

\* C4 as stated: of two callers claiming under any interleaving only one
\* claim succeeds while a call is in flight (the other is Busy); after the
\* winning call completes all four shared fields are idle, so that exactly
\* one subsequent claim succeeds.
C4_ExactlyOneClaim ==
    [][\A c \in Callers :
        /\ Claims(c) => \A d \in Callers \ {c} : sPc[d] \notin Holding
        /\ Completes(c) => AllIdle']_vars

\* C4 amended: in every run in which no claim succeeds between a call's trap
\* and the end of that call's reset, only one claim succeeds while a call is
\* in flight (a claim attempted before the winner's trap is Busy); after the
\* winning call completes all four shared fields are idle, so that exactly
\* one subsequent claim succeeds.
C4_ExactlyOneClaimUnraced ==
    [][~sRaced' =>
        \A c \in Callers :
            /\ Claims(c) => \A d \in Callers \ {c} : sPc[d] \notin Holding
            /\ Completes(c) => AllIdle']_vars

\* caller 2 lost a claim as Busy, caller 1's call completed with a result,
\* and caller 2 then claimed the idle slot
C4_Witness ==
    /\ ~sRaced /\ sRes[1] = "ok" /\ sRes[2] = "busy"
    /\ sPc[1] = "idle" /\ sPc[2] = "pubInLen"

\* C5 as stated: the four shared fields are idle whenever no call is between
\* its claim and the end of its reset, and at most one call is between those
\* points, also after the handler has cleared the fields.
C5_SlotInvariant ==
    /\ Cardinality(Holders) <= 1
    /\ Holders = {} => AllIdle

\* C5 amended: as long as no claim has succeeded between another call's trap
\* and the end of its reset, the four shared fields are idle whenever no call
\* is between its claim and the end of its reset, at most one call is between
\* those points, and until its trap the incoming pointer is that call's
\* buffer, so that no other claim can succeed.
C5_SlotInvariantUnraced ==
    ~sRaced =>
        /\ Cardinality(Holders) <= 1
        /\ Holders = {} => AllIdle
        /\ \A c \in Callers : sPc[c] \in PreTrap => sInPtr = InBuf(c)

\* a call that failed and a call that succeeded have both been reset
C5_Witness ==
    /\ ~sRaced /\ Holders = {} /\ AllIdle
    /\ sRes[1] = "failed" /\ sRes[2] = "ok"

\* one step of caller c is its trap: the privileged handler runs
Traps(c) == sPc[c] = "svc" /\ sPc'[c] = "take"

\* the three stores of caller c between its claim and its trap
Publishes(c) == sPc[c] \in {"pubInLen", "pubOutPtr", "pubOutLen"} /\ sPc'[c] # sPc[c]

\* the stores that publish a call: a step that is not a trap and gives the
\* incoming length, the outgoing pointer or the outgoing length a value that
\* is not idle is the store of a caller past its claim and before its trap,
\* and the value is that call's; the claim itself writes none of the three
PublishedAfterClaim ==
    /\ (\A c \in Callers : ~Traps(c)) /\
       ((sInLen' # sInLen /\ sInLen' # 0) \/ (sOutPtr' # sOutPtr /\ sOutPtr' # NullPtr)
           \/ (sOutLen' # sOutLen /\ sOutLen' # 0)) =>
           \E c \in Callers :
               /\ Publishes(c)
               /\ sInLen' \in {sInLen, sReq[c]}
               /\ sOutPtr' \in {sOutPtr, OutBuf(c)}
               /\ sOutLen' \in {sOutLen, OutCap}
    /\ \A c \in Callers : Claims(c) => UNCHANGED <<sInLen, sOutPtr, sOutLen>>

\* the four shared fields describe the call of caller c
Describes(c) ==
    sInPtr = InBuf(c) /\ sInLen = sReq[c] /\ sOutPtr = OutBuf(c) /\ sOutLen = OutCap

\* C33 as stated: the incoming length, the outgoing pointer and the outgoing
\* capacity are stored after the claim has succeeded and before the trap, and
\* when the handler runs the four shared fields describe the calling call's
\* request buffer and its output buffer of OutCap bytes.
C33_PublishOrder ==
    [][/\ PublishedAfterClaim
       /\ \A c \in Callers : Traps(c) => Describes(c)]_vars

\* C33 amended: the three stores follow the claim and precede the trap; in
\* every run in which no claim has succeeded between another call's trap and
\* the end of that call's reset, the four shared fields describe the calling
\* call's buffers when the handler runs.
C33_PublishOrderUnraced ==
    [][/\ PublishedAfterClaim
       /\ ~sRaced => \A c \in Callers : Traps(c) => Describes(c)]_vars

\* C33 witness: the handler has run for caller 2 and has written a result,
\* after caller 1 completed a call and with no claim between a trap and a
\* reset
C33_Witness ==
    /\ ~sRaced
    /\ sPc[2] = "take" /\ sOutLen > 0
    /\ sPc[1] = "idle" /\ sRes[1] = "ok"

\* one step of caller c takes the outgoing length
Takes(c) == sPc[c] = "take" /\ sPc'[c] = "rstOutPtr"

\* `&mut output[..new_out_len]`: the part of its output buffer caller c hands
\* to the decoder
Oused(c) == [ptr |-> OutBuf(c), len |-> sNew[c]]

\* what caller c does after its trap: it takes the outgoing length and zeroes
\* it in one step, keeps what it took through the three stores of the reset,
\* and only then looks at it: the call fails when it took 0, and otherwise
\* returns that many bytes from the start of its own output buffer
TakeThenReset(c) ==
    /\ Takes(c) => sNew'[c] = sOutLen /\ sOutLen' = 0
    /\ sPc[c] \in {"rstOutPtr", "rstInLen"} => sNew'[c] = sNew[c] /\ sRes'[c] = sRes[c]
    /\ sPc[c] = "rstOutPtr" /\ sPc'[c] # sPc[c] => sPc'[c] = "rstInLen" /\ sOutPtr' = NullPtr
    /\ sPc[c] = "rstInLen" /\ sPc'[c] # sPc[c] => sPc'[c] = "rstInPtr" /\ sInLen' = 0
    /\ Completes(c) =>
           /\ sInPtr' = NullPtr
           /\ sRes'[c] = IF Oused(c).len = 0 THEN "failed" ELSE "ok"
           /\ Oused(c).ptr = OutBuf(c) /\ Oused(c).len <= OutCap

\* the length caller c will take is the one the handler wrote at its trap:
\* no step changes the outgoing length between the trap of c and its take
TakesOwnLength(c) ==
    sPc[c] = "take" /\ sPc'[c] = "take" => sOutLen' = sOutLen

\* C34 as stated: after the trap the caller takes and zeroes the outgoing
\* length and resets the other fields before it looks at the result; the
\* call fails when the length taken is 0 and otherwise returns the first L
\* bytes of its output buffer, L being the length the handler wrote for
\* this call.
C34_Result ==
    [][\A c \in Callers : TakeThenReset(c) /\ TakesOwnLength(c)]_vars

\* C34 amended: the caller takes, resets and then looks at the result as
\* stated; in every run in which no claim succeeds between another call's
\* trap and the end of that call's reset, the length taken is the length the
\* handler wrote for this call.
C34_ResultUnraced ==
    [][\A c \in Callers : TakeThenReset(c) /\ (~sRaced' => TakesOwnLength(c))]_vars

\* C34 witness: caller 1 has taken a length that is not 0 and has reset the
\* outgoing pointer and the incoming length; an earlier call of caller 2
\* took 0 and failed
C34_Witness ==
    /\ ~sRaced
    /\ sPc[1] = "rstInPtr" /\ sNew[1] > 0
    /\ sOutLen = 0 /\ sOutPtr = NullPtr /\ sInLen = 0
    /\ sRes[2] = "failed"

\* the order of the stores of caller c after its trap: the outgoing length,
\* the outgoing pointer, the incoming length, and the incoming pointer last;
\* no store before the last one writes the incoming pointer
ResetOrder(c) ==
    /\ Takes(c) => UNCHANGED <<sInPtr, sInLen, sOutPtr>>
    /\ sPc[c] = "rstOutPtr" /\ sPc'[c] # sPc[c] =>
           sPc'[c] = "rstInLen" /\ UNCHANGED <<sInPtr, sInLen, sOutLen>>
    /\ sPc[c] = "rstInLen" /\ sPc'[c] # sPc[c] =>
           sPc'[c] = "rstInPtr" /\ UNCHANGED <<sInPtr, sOutPtr, sOutLen>>
    /\ sPc[c] = "rstInPtr" /\ sPc'[c] # sPc[c] =>
           Completes(c) /\ sInPtr' = NullPtr /\ UNCHANGED <<sInLen, sOutPtr, sOutLen>>

\* the incoming pointer is null by the reset of a caller, not by the handler:
\* no call is between its trap and the end of its reset
NullByReset == sInPtr = NullPtr /\ \A c \in Callers : sPc[c] \notin PostTrap

\* the other three shared fields are idle
OthersIdle == sInLen = 0 /\ sOutPtr = NullPtr /\ sOutLen = 0

\* C35 as stated: the caller clears the incoming pointer last, so whenever
\* the incoming pointer is null by the reset of a caller the other three
\* fields are idle, and no claim succeeds while another call is between its
\* trap and the end of its reset.
C35_ResetOrder ==
    [][/\ \A c \in Callers : ResetOrder(c)
       /\ NullByReset' => OthersIdle'
       /\ \A c \in Callers : Claims(c) => \A d \in Callers \ {c} : sPc[d] \notin PostTrap
      ]_vars

\* C35 amended: the caller clears the incoming pointer last; in every run in
\* which no claim has succeeded between another call's trap and the end of
\* that call's reset, whenever the incoming pointer is null by the reset of
\* a caller the other three fields are idle.
C35_ResetOrderUnraced ==
    [][/\ \A c \in Callers : ResetOrder(c)
       /\ ~sRaced' => (NullByReset' => OthersIdle')
      ]_vars

\* C35 witness: caller 1 has completed a call that returned a result, its
\* reset has left the slot idle, and caller 2 is about to claim it
C35_Witness ==
    /\ ~sRaced
    /\ sPc[1] = "idle" /\ sRes[1] = "ok"
    /\ NullByReset /\ OthersIdle
    /\ sPc[2] = "claim"

\* C13: a call whose claim finds the incoming pointer non-null returns Err
\* in that step, without trap, wait or retry, and the four shared fields and
\* the other callers are as they were.
C13_BusyNoEffect ==
    [][\A c \in Callers :
          (sPc[c] = "claim" /\ sPc'[c] # "claim" /\ sInPtr # NullPtr) =>
              /\ sPc'[c] = "idle"
              /\ sRes'[c] = "busy"
              /\ <<sInPtr, sInLen, sOutPtr, sOutLen>>' = <<sInPtr, sInLen, sOutPtr, sOutLen>>
              /\ \A d \in Callers \ {c} :
                     sPc'[d] = sPc[d] /\ sRes'[d] = sRes[d] /\ sNew'[d] = sNew[d]
      ]_vars

\* C13 happens: caller 2 was refused while caller 1 is between its claim and
\* its trap, its publication intact
C13_Witness ==
    /\ sRes[2] = "busy" /\ sPc[2] = "idle"
    /\ sPc[1] = "svc"
    /\ sInPtr = InBuf(1) /\ sOutPtr = OutBuf(1) /\ sOutLen = OutCap

-----------------------------------------------------------------------------
(* Properties of the Accumulator *)

\* the whole window fed in a single call to a given Accumulator, every
\* returned remainder re-fed: the frames decoded and whether a feed faulted
RECURSIVE FeedAll(_, _, _)
FeedAll(a, win, frames) ==
    IF win = <<>> THEN [frames |-> frames, fault |-> FALSE]
    ELSE LET r == feed(a, win)
         IN  CASE r.kind = "fault" -> [frames |-> frames, fault |-> TRUE]
               [] r.kind = "frame" -> FeedAll(r.acc, r.rem, Append(frames, r.msg))
               [] r.kind = "withrem" -> FeedAll(r.acc, r.rem, frames)
               [] OTHER -> [frames |-> frames, fault |-> FALSE]

\* the harness has handed over the whole stream, or has faulted
AccDone == tFault \/ (tLeft = <<>> /\ tWin = <<>>)

\* no frame of the stream has more than AccN bytes before its sentinel
FramesFit(s) ==
    \A i \in 1..Len(s) : \A j \in i..Len(s) :
        (j - i + 1 > AccN) => \E k \in i..j : s[k] = 0

\* C3 as stated: for any sequence of frames and any split of its encoded
\* stream into sub-windows, feeding the sub-windows one after another yields
\* the same decoded frames as feeding the whole stream in one call.
C3_ChunkInvarianceAnyFrames ==
    AccDone => tFrames = FeedAll(AccNew(AccN), tStream, <<>>).frames

\* C3 amended: for any sequence of frames none of which has more than N bytes
\* before its sentinel, and any split of its encoded stream into sub-windows,
\* feeding the sub-windows one after another yields the same decoded frames
\* as feeding the whole stream in one call, and faults exactly when that does.
C3_ChunkInvariance ==
    (FramesFit(tStream) /\ AccDone) =>
        /\ tFrames = FeedAll(AccNew(AccN), tStream, <<>>).frames
        /\ tFault = FeedAll(AccNew(AccN), tStream, <<>>).fault

\* a stream of two fitting frames has been fed to the end, the last frame
\* completed from bytes accumulated by an earlier window
C3_Witness ==
    /\ FramesFit(tStream) /\ tLeft = <<>> /\ tWin = <<>> /\ ~tFault
    /\ Len(tFrames) = 2
    /\ tLast.kind = "call" /\ tLast.res.kind = "frame" /\ tLast.pre.idx > 0

\* C10: a feed whose window has its first sentinel at offset n, with
\* cursor + n <= N, returns the frame made of the accumulated bytes and the
\* n window bytes before the sentinel, with the bytes after the sentinel as
\* remainder and the cursor back at 0, without fault.
C10_SentinelFits ==
    tLast.kind = "call" =>
        LET n == Position(tLast.window)
            c == tLast.pre.idx
            r == tLast.res
        IN  (n >= 0 /\ c + n <= AccN) =>
                /\ r.kind = "frame"
                /\ SliceTo(r.msg, Len(r.msg) - 1) =
                       SliceTo(tLast.pre.buf, c) \o SliceTo(tLast.window, n)
                /\ r.rem = SliceFrom(tLast.window, n + 1)
                /\ r.acc.idx = 0

\* what a caller sees of a run of feed calls on a, one per window of ws: the
\* outcome, frame and remainder of each call, up to a fault
RECURSIVE FeedSeq(_, _)
FeedSeq(a, ws) ==
    IF ws = <<>> THEN <<>>
    ELSE LET r == feed(a, Head(ws))
             seen == [kind |-> r.kind, msg |-> r.msg, rem |-> r.rem]
         IN  IF r.kind = "fault" THEN <<seen>>
             ELSE <<seen>> \o FeedSeq(r.acc, Tail(ws))

\* the windows and the runs of windows the Accumulator is probed with after
\* an overflow: a frame in one window, or completed by a second one
ProbeWindows == SeqUpTo({0, 1}, AccN \div 2) \ {<<>>}
ProbeRuns == UNION {[1..k -> ProbeWindows] : k \in 1..2}

\* the last feed reported an overflow
Overflowed == tLast.kind = "call" /\ tLast.res.kind \in {"withrem", "norem"}

\* C11: after a feed that reports an overflow the cursor is 0, and every run
\* of feed calls that follows returns what it returns on a new Accumulator.
C11_OverflowResets ==
    Overflowed =>
        /\ tAcc.idx = 0
        /\ \A ws \in ProbeRuns : FeedSeq(tAcc, ws) = FeedSeq(AccNew(AccN), ws)

\* C11 happens: a feed overflowed with bytes accumulated before it
C11_Witness ==
    /\ Overflowed
    /\ tLast.pre.idx > 0
    /\ tAcc.buf # AccNew(AccN).buf

\* C12 (as claimed): a feed that finds its sentinel beyond capacity returns
\* WithRemainder exactly when a byte follows the sentinel in the window, with
\* those bytes, and NoRemainder when the sentinel is the last byte.
C12_OverflowVariant ==
    tLast.kind = "call" =>
        LET n == Position(tLast.window)
            r == tLast.res
        IN  (n >= 0 /\ tLast.pre.idx + n > AccN) =>
                /\ r.kind \in {"withrem", "norem"}
                /\ r.kind = "withrem" <=> n + 1 < Len(tLast.window)
                /\ r.kind = "withrem" => r.rem = SliceFrom(tLast.window, n + 1)

\* C22: after any sequence of feed calls the cursor is between 0 and N, the
\* scratch buffer is the same N cells, and the cursor is 0 after every feed
\* that completes a frame or reports an overflow.
C22_CursorBound ==
    /\ tAcc.idx \in 0..AccN
    /\ Len(tAcc.buf) = AccN
    /\ (tLast.kind = "call" /\ tLast.res.kind \in {"frame", "withrem", "norem"}) =>
           tAcc.idx = 0

\* C22 witness: a window longer than the scratch buffer, with no sentinel,
\* has been fed and reported as an overflow
C22_Witness ==
    /\ tLast.kind = "call"
    /\ Len(tLast.window) > AccN
    /\ Position(tLast.window) < 0
    /\ tLast.res.kind = "norem"

\* C23: a feed of a window with no sentinel, with cursor + len(window) <= N,
\* returns "no frame yet", writes the window after the bytes accumulated
\* before, leaves those as they were, and advances the cursor by the length
\* of the window.
C23_AppendNoSentinel ==
    tLast.kind = "call" =>
        LET w == tLast.window
            c == tLast.pre.idx
            r == tLast.res
        IN  (Position(w) < 0 /\ c + Len(w) <= AccN) =>
                /\ r.kind = "none"
                /\ r.acc.idx = c + Len(w)
                /\ SliceTo(r.acc.buf, c) = SliceTo(tLast.pre.buf, c)
                /\ SubSeq(r.acc.buf, c + 1, c + Len(w)) = w
                /\ SliceFrom(r.acc.buf, c + Len(w)) = SliceFrom(tLast.pre.buf, c + Len(w))

\* C23 witness: a window with no sentinel has been appended after bytes
\* accumulated by an earlier feed
C23_Witness ==
    /\ tLast.kind = "call"
    /\ tLast.res.kind = "none"
    /\ tLast.pre.idx > 0
    /\ tAcc.idx > tLast.pre.idx

-----------------------------------------------------------------------------
(* Properties of the outbound path *)

\* the bytes of a ring channel that are committed and not released, oldest
\* first
RingStream(r) ==
    IF r.write >= r.read THEN SubSeq(r.buf, r.read + 1, r.write)
    ELSE SubSeq(r.buf, r.read + 1, r.last) \o SubSeq(r.buf, 1, r.write)

\* one step is the commit of a frame by send
IsCommit == pc = "send_commit" /\ pc' = "send_grant"

\* C30: the bytes the serial port has accepted, followed by the bytes that
\* wait in the outbound channel, are the frames send has committed, in commit
\* order: a commit appends its frame to the bytes that wait, and any other
\* step, of poll or of send, by what it releases and what the port accepts,
\* only moves bytes from the front of those that wait to the end of those
\* accepted; the port accepting nothing, nothing is released.
C30_EgressIntegrity ==
    [][/\ IsCommit =>
              /\ txLog' = txLog
              /\ RingStream(out') =
                     RingStream(out) \o
                         Frame(snd.port, SliceTo(snd.rem, Len(snd.rem) - Len(snd'.rem)))
       /\ ~IsCommit =>
              /\ txLog' \o RingStream(out') = txLog \o RingStream(out)
              /\ SliceTo(txLog', Len(txLog)) = txLog
              /\ txLog' = txLog => RingStream(out') = RingStream(out)
      ]_vars

\* C30 witness: poll has preempted a send between two of its commits, the
\* port has accepted part of what was committed, and the frame committed
\* after that waits at the start of the ring
C30_Witness ==
    /\ txLog # <<>>
    /\ out.write < out.read
    /\ RingStream(out) # <<>>
    /\ snd.done # <<>> /\ snd.rem = <<>>

-----------------------------------------------------------------------------
(* Properties of the inbound path *)

\* the number of bytes a step takes from the serial port
Taken == Len(Flatten(rxq)) - Len(Flatten(rxq'))

\* C31: poll appends to the bytes that wait in the inbound channel exactly
\* the bytes it takes from the serial port, at most PollRxMax of them in one
\* poll and none when the channel grants no room; process reads the oldest
\* bytes that wait, in order, and what it releases is the whole of what it
\* read, so each committed byte is read once; no other step changes the
\* bytes that wait.
C31_IngressIntegrity ==
    [][/\ hostLeft' # hostLeft => RingStream(inc') = RingStream(inc)
       /\ hostLeft' = hostLeft =>
              /\ Taken \in 0..PollRxMax
              /\ Flatten(rxq) = SliceTo(Flatten(rxq), Taken) \o Flatten(rxq')
              /\ GrantMaxRemaining(inc, PollRxMax).res # "ok" => Taken = 0
              /\ IF inc.rip /\ ~inc'.rip
                 THEN /\ Taken = 0
                      /\ RingStream(inc) = Granted(inc) \o RingStream(inc')
                 ELSE RingStream(inc') = RingStream(inc) \o SliceTo(Flatten(rxq), Taken)
              /\ ~inc.rip /\ inc'.rip =>
                     /\ window' = Granted(inc')
                     /\ window' = SliceTo(RingStream(inc), Len(window'))
      ]_vars

\* C31 witness: process holds a window of the inbound channel, poll has
\* committed PollRxMax bytes behind it since, the channel has no room left
\* and the serial port still holds bytes
C31_Witness ==
    /\ pc = "proc_feed"
    /\ inc.rip
    /\ Len(RingStream(inc)) >= inc.rlen + PollRxMax
    /\ GrantMaxRemaining(inc, PollRxMax).res = "insufficient"
    /\ rxq # <<>>

\* s is the start of t
IsPrefix(s, t) == Len(s) <= Len(t) /\ s = SliceTo(t, Len(s))

\* s is the end of t
IsSuffix(s, t) == Len(s) <= Len(t) /\ s = SliceFrom(t, Len(t) - Len(s))

\* C32: a step of poll leaves the port registry, every port queue and with
\* them the heap, and the Accumulator unchanged, as well as the call in
\* progress; of the outbound channel it leaves the producer's half (write,
\* reserve, last, the write reservation) unchanged and only takes bytes from
\* the front of those that wait; of the inbound channel it leaves the
\* consumer's half (read, the read reservation and its bytes) unchanged and
\* only adds bytes behind those that wait.
C32_PollFrame ==
    [][poll =>
          /\ UNCHANGED <<ports, acc, window, pc, call, snd, ret>>
          /\ HeapUsed(ports') = HeapUsed(ports)
          /\ out'.write = out.write /\ out'.reserve = out.reserve /\ out'.last = out.last
          /\ out'.wip = out.wip /\ out'.wstart = out.wstart /\ out'.wlen = out.wlen
          /\ IsSuffix(RingStream(out'), RingStream(out))
          /\ inc'.read = inc.read /\ inc'.rip = inc.rip /\ inc'.rlen = inc.rlen
          /\ inc.rip => Granted(inc') = Granted(inc)
          /\ IsPrefix(RingStream(inc), RingStream(inc'))
      ]_vars

\* C32 witness: poll has handed the looped-back frame of the outbound channel
\* to the port and has committed the bytes of the inbound channel process
\* now holds, with a part of a frame in the Accumulator and a chunk on the
\* heap
C32_Witness ==
    /\ pc = "proc_feed"
    /\ inc.rip
    /\ acc.idx > 0
    /\ HeapUsed(ports) > 0
    /\ out.read > 0
    /\ RingStream(out) = <<>>

-----------------------------------------------------------------------------
(* Properties of the loop of send *)

\* one step is a pass of the loop of send
IsPass == eRes = "run" /\ eRemaining > 0 /\ eRes' # "none"

\* C25 (as claimed): a pass of send returns with the remaining input as it
\* was exactly when the reservation failed or is too short for a frame with
\* one payload byte; every other pass commits a frame with at least one
\* payload byte.
C25_ReturnOrCommit ==
    [][IsPass =>
          /\ (eRes' = "err" /\ eRemaining' = eRemaining) <=> eGrant' <= 2 + 1 + 1
          /\ eGrant' > 2 + 1 + 1 => (eRes' = "run" /\ eRemaining' < eRemaining)
      ]_vars

\* C26 (as claimed): for a reservation of G > 4 bytes and R >= 1 remaining
\* bytes the frame with min(G - 4, R) payload bytes encodes into at most G
\* bytes, and send does not reach its encode-failure branch.
C26_EncodeFits ==
    [][(IsPass /\ eGrant' > 4) =>
          /\ max_encoding_length(ToUse(eGrant', eRemaining)) <= eGrant'
          /\ eRes' # "panic"
      ]_vars

\* C27 (as claimed): every pass of send returns, or commits a frame that
\* takes at least one byte of the remaining input.
C27_SendTerminates ==
    [][IsPass =>
          \/ eRes' \in {"ok", "err"}
          \/ eRes' = "run" /\ eRemaining' \in 0..(eRemaining - 1)
      ]_vars

=============================================================================
